---- MODULE Spec2Model ----
(***************************************************************************)
(* Descriptive chess notation: the parser (DescriptiveNotationParser), the *)
(* formatter (MoveToDescriptive), the legal-move oracle they query         *)
(* (chess.Board) and the window that keeps the history of positions        *)
(* (ChessBoardGUI), as a state machine.                                    *)
(*                                                                         *)
(* A notation is a sequence of one-character strings.  A square is an      *)
(* integer 0..63 (a1 = 0, h1 = 7, a8 = 56), a move is a record             *)
(* [from_square, to_square, promotion] with promotion 0 for "no promotion",*)
(* a piece is an integer: 0 for an empty square, the piece type 1..6 for a *)
(* white piece and 8 + the piece type for a black piece.                   *)
(***************************************************************************)
EXTENDS Integers, Sequences, FiniteSets, TLC

VARIABLES
    pieces,           \* board: piece placement, [0..63 -> piece]
    turn,             \* board.turn: TRUE = White to move
    castling_rights,  \* board.castling_rights: the rook squares that may still castle
    ep_square,        \* board.ep_square: -1 or the square behind a pawn that just advanced two
    move_stack,       \* board.move_stack
    legal_moves,      \* board.legal_moves for the position above, in enumeration order
    is_white_turn,    \* parser.is_white_turn, captured by __init__
    notation_text,    \* the text last handed to parse, or last produced by convert
    result,           \* the value parse returned last (None when it failed)
    formatted,        \* the move last handed to MoveToDescriptive.convert (None when none)
    test_i,           \* test_basic_moves: index of the next test case, 0 when the test is not run
    pc,               \* the caller: "ready", "parsed" (parse returned), "converted"
                      \* (convert returned), "reparsed" (convert's text was parsed)
    board_states,     \* ChessBoardGUI.board_states: the FEN of every position, the first included
    move_history,     \* ChessBoardGUI.move_history: the FEN before each move
    move_notations,   \* ChessBoardGUI.move_notations: the text of each move
    current_move_index, \* ChessBoardGUI.current_move_index: the position shown, 0 for the first
    animating,        \* ChessBoardGUI.animating
    animations,       \* the animations whose timer callbacks are still scheduled, oldest first
    status,           \* the status label: its message and whether it is shown as an error
    displayed         \* the placement _draw_board drew last

\* the window: ChessBoardGUI
gui_vars == <<board_states, move_history, move_notations, current_move_index,
              animating, animations, status, displayed>>

vars == <<pieces, turn, castling_rights, ep_square, move_stack, legal_moves,
          is_white_turn, notation_text, result, formatted, test_i, pc,
          board_states, move_history, move_notations, current_move_index,
          animating, animations, status, displayed>>

board == <<pieces, turn, castling_rights, ep_square, move_stack>>

-----------------------------------------------------------------------------
(* Bounds of the model.                                                    *)

\* pushes allowed on a board outside the run of test_basic_moves
MaxPly == 1

-----------------------------------------------------------------------------
(* chess: piece types, colours, squares, moves.                            *)

PAWN == 1
KNIGHT == 2
BISHOP == 3
ROOK == 4
QUEEN == 5
KING == 6

WHITE == TRUE
BLACK == FALSE

Squares == 0..63

\* A parse that fails returns None; a move is never None.
None == [from_square |-> -1, to_square |-> -1, promotion |-> 0]

Move(f, t, p) == [from_square |-> f, to_square |-> t, promotion |-> p]

\* Piece(piece_type, color)
Piece(t, c) == IF c THEN t ELSE t + 8
piece_type(p) == p % 8
piece_color(p) == p < 8

square_file(sq) == sq % 8
square_rank(sq) == sq \div 8
square(f, r) == r * 8 + f
OnBoard(f, r) == f >= 0 /\ f <= 7 /\ r >= 0 /\ r <= 7

\* board.piece_at(square): 0 (falsy) when the square is empty or off the board
piece_at(b, sq) == IF sq \in Squares THEN b[sq] ELSE 0

\* the elements of a set of integers, largest first (chess.scan_reversed)
RECURSIVE scan_reversed(_)
scan_reversed(S) ==
    IF S = {} THEN <<>>
    ELSE LET m == CHOOSE x \in S : \A y \in S : y <= x
         IN  <<m>> \o scan_reversed(S \ {m})

\* concatenation of the sequences f[1], f[2], ...
RECURSIVE Flatten(_)
Flatten(ss) == IF ss = <<>> THEN <<>> ELSE Head(ss) \o Flatten(Tail(ss))

KnightDeltas == {<<1, 2>>, <<2, 1>>, <<2, -1>>, <<1, -2>>,
                 <<-1, -2>>, <<-2, -1>>, <<-2, 1>>, <<-1, 2>>}
KingDeltas == {<<1, 0>>, <<1, 1>>, <<0, 1>>, <<-1, 1>>,
               <<-1, 0>>, <<-1, -1>>, <<0, -1>>, <<1, -1>>}
RookDirs == {<<1, 0>>, <<-1, 0>>, <<0, 1>>, <<0, -1>>}
BishopDirs == {<<1, 1>>, <<1, -1>>, <<-1, 1>>, <<-1, -1>>}

\* the squares a step (or leap) away from sq
StepTargets(sq, deltas) ==
    {square(square_file(sq) + d[1], square_rank(sq) + d[2]) :
        d \in {e \in deltas : OnBoard(square_file(sq) + e[1], square_rank(sq) + e[2])}}

\* the squares of a ray from (f, r) in direction d, up to and including the first
\* occupied square
RECURSIVE Ray(_, _, _, _)
Ray(b, f, r, d) ==
    LET nf == f + d[1]
        nr == r + d[2]
    IN  IF ~OnBoard(nf, nr) THEN {}
        ELSE IF b[square(nf, nr)] # 0 THEN {square(nf, nr)}
        ELSE {square(nf, nr)} \cup Ray(b, nf, nr, d)

SlideTargets(b, sq, dirs) ==
    UNION {Ray(b, square_file(sq), square_rank(sq), d) : d \in dirs}

\* the squares a pawn of colour c on sq attacks
PawnAttacks(sq, c) ==
    StepTargets(sq, IF c THEN {<<1, 1>>, <<-1, 1>>} ELSE {<<1, -1>>, <<-1, -1>>})

\* board.attacks_mask(square): the squares the piece on sq attacks
attacks(b, sq) ==
    LET p == b[sq]
        t == piece_type(p)
    IN  CASE t = PAWN   -> PawnAttacks(sq, piece_color(p))
          [] t = KNIGHT -> StepTargets(sq, KnightDeltas)
          [] t = KING   -> StepTargets(sq, KingDeltas)
          [] t = BISHOP -> SlideTargets(b, sq, BishopDirs)
          [] t = ROOK   -> SlideTargets(b, sq, RookDirs)
          [] t = QUEEN  -> SlideTargets(b, sq, RookDirs \cup BishopDirs)
          [] OTHER      -> {}

\* board.is_attacked_by(color, square), looking outward from the square
is_attacked_by(b, c, sq) ==
    \/ \E s \in StepTargets(sq, KnightDeltas) : b[s] = Piece(KNIGHT, c)
    \/ \E s \in StepTargets(sq, KingDeltas) : b[s] = Piece(KING, c)
    \/ \E s \in PawnAttacks(sq, ~c) : b[s] = Piece(PAWN, c)
    \/ \E s \in SlideTargets(b, sq, RookDirs) : b[s] \in {Piece(ROOK, c), Piece(QUEEN, c)}
    \/ \E s \in SlideTargets(b, sq, BishopDirs) : b[s] \in {Piece(BISHOP, c), Piece(QUEEN, c)}

\* board.king(color): the king's square, -1 when there is none
king(b, c) ==
    IF \E s \in Squares : b[s] = Piece(KING, c)
    THEN CHOOSE s \in Squares : b[s] = Piece(KING, c)
    ELSE -1

OwnSquares(b, c) == {s \in Squares : b[s] # 0 /\ piece_color(b[s]) = c}

\* board.is_en_passant(move)
is_en_passant(b, ep, m) ==
    /\ ep = m.to_square
    /\ piece_type(b[m.from_square]) = PAWN
    /\ b[m.to_square] = 0
    /\ square_file(m.from_square) # square_file(m.to_square)

\* board.is_castling(move): the king moves more than one file, or onto a rook of
\* its own colour
is_castling(b, m) ==
    /\ piece_type(b[m.from_square]) = KING
    /\ \/ square_file(m.from_square) - square_file(m.to_square) > 1
       \/ square_file(m.to_square) - square_file(m.from_square) > 1
       \/ b[m.to_square] = Piece(ROOK, piece_color(b[m.from_square]))

\* board.is_kingside_castling(move)
is_kingside_castling(b, m) ==
    is_castling(b, m) /\ square_file(m.to_square) > square_file(m.from_square)

\* the piece placement after a move (the placement part of board.push)
PiecesAfter(b, ep, m) ==
    LET p == b[m.from_square]
        c == piece_color(p)
        placed == IF m.promotion # 0 THEN Piece(m.promotion, c) ELSE p
        b1 == [b EXCEPT ![m.from_square] = 0, ![m.to_square] = placed]
        b2 == IF is_en_passant(b, ep, m)
              THEN [b1 EXCEPT ![m.to_square + (IF c THEN -8 ELSE 8)] = 0]
              ELSE b1
        r == square_rank(m.from_square)
    IN  IF is_castling(b, m)
        THEN IF square_file(m.to_square) > square_file(m.from_square)
             THEN [b2 EXCEPT ![square(7, r)] = 0, ![square(5, r)] = Piece(ROOK, c)]
             ELSE [b2 EXCEPT ![square(0, r)] = 0, ![square(3, r)] = Piece(ROOK, c)]
        ELSE b2

\* board.clean_castling_rights(): rights whose rook and king still stand at home
clean_castling_rights(b, cr) ==
    {s \in cr :
        LET c == (s < 8)
        IN  /\ s \in {0, 7, 56, 63}
            /\ b[s] = Piece(ROOK, c)
            /\ b[IF c THEN 4 ELSE 60] = Piece(KING, c)}

\* board.has_kingside_castling_rights(color)
has_kingside_castling_rights(b, cr, c) ==
    (IF c THEN 7 ELSE 63) \in clean_castling_rights(b, cr)

\* board.has_queenside_castling_rights(color)
has_queenside_castling_rights(b, cr, c) ==
    (IF c THEN 0 ELSE 56) \in clean_castling_rights(b, cr)

\* board.is_check()
is_check(b, c) == king(b, c) # -1 /\ is_attacked_by(b, ~c, king(b, c))

\* the moves of the pieces other than pawns, from the highest origin square down
\* and for each origin from the highest destination down
PieceMoves(b, c, froms) ==
    Flatten([i \in 1..Len(froms) |->
        LET sq == froms[i]
            tos == scan_reversed({t \in attacks(b, sq) :
                                     b[t] = 0 \/ piece_color(b[t]) # c})
        IN  [j \in 1..Len(tos) |-> Move(sq, tos[j], 0)]])

\* board.generate_castling_moves(): king side first
CastlingMoves(b, cr, c) ==
    LET k == IF c THEN 4 ELSE 60
        noking == [s \in Squares |-> IF s = k THEN 0 ELSE b[s]]
        free(S) == \A s \in S : b[s] = 0
        safe(S) == \A s \in S : ~is_attacked_by(noking, ~c, s)
        ks == IF /\ has_kingside_castling_rights(b, cr, c)
                 /\ free({k + 1, k + 2})
                 /\ safe({k, k + 1, k + 2})
              THEN <<Move(k, k + 2, 0)>> ELSE <<>>
        qs == IF /\ has_queenside_castling_rights(b, cr, c)
                 /\ free({k - 1, k - 2, k - 3})
                 /\ safe({k, k - 1, k - 2})
              THEN <<Move(k, k - 2, 0)>> ELSE <<>>
    IN  ks \o qs

\* a pawn move to square t: four promotions on the last rank, else one move
PawnMoveTo(f, t) ==
    IF square_rank(t) \in {0, 7}
    THEN <<Move(f, t, QUEEN), Move(f, t, ROOK), Move(f, t, BISHOP), Move(f, t, KNIGHT)>>
    ELSE <<Move(f, t, 0)>>

\* the pawn moves: captures, single advances, double advances, en passant
PawnMoves(b, c, ep) ==
    LET pawns == {s \in Squares : b[s] = Piece(PAWN, c)}
        up == IF c THEN 8 ELSE -8
        capturers == scan_reversed(pawns)
        captures == Flatten([i \in 1..Len(capturers) |->
            LET sq == capturers[i]
                tos == scan_reversed({t \in PawnAttacks(sq, c) :
                                         b[t] # 0 /\ piece_color(b[t]) # c})
            IN  Flatten([j \in 1..Len(tos) |-> PawnMoveTo(sq, tos[j])])])
        single == scan_reversed({s + up : s \in {q \in pawns : b[q + up] = 0}})
        singles == Flatten([i \in 1..Len(single) |-> PawnMoveTo(single[i] - up, single[i])])
        double == scan_reversed({s + 2 * up : s \in {q \in pawns :
                      /\ square_rank(q) = (IF c THEN 1 ELSE 6)
                      /\ b[q + up] = 0
                      /\ b[q + 2 * up] = 0}})
        doubles == [i \in 1..Len(double) |-> Move(double[i] - 2 * up, double[i], 0)]
        epfrom == IF ep \in Squares /\ b[ep] = 0
                  THEN scan_reversed({q \in pawns :
                          /\ square_rank(q) = (IF c THEN 4 ELSE 3)
                          /\ ep \in PawnAttacks(q, c)})
                  ELSE <<>>
        eps == [i \in 1..Len(epfrom) |-> Move(epfrom[i], ep, 0)]
    IN  captures \o singles \o doubles \o eps

\* board.generate_legal_moves(): the pseudo-legal moves that leave the mover's king
\* safe; when in check the king's moves come first (board._generate_evasions)
LegalMoves(b, c, cr, ep) ==
    LET own == OwnSquares(b, c)
        k == king(b, c)
        nonpawns == {s \in own : piece_type(b[s]) # PAWN}
        pseudo ==
            IF is_check(b, c)
            THEN PieceMoves(b, c, <<k>>)
                 \o PieceMoves(b, c, scan_reversed(nonpawns \ {k}))
                 \o PawnMoves(b, c, ep)
            ELSE PieceMoves(b, c, scan_reversed(nonpawns))
                 \o CastlingMoves(b, cr, c)
                 \o PawnMoves(b, c, ep)
        is_safe(m) ==
            LET after == PiecesAfter(b, ep, m)
            IN  king(after, c) = -1 \/ ~is_attacked_by(after, ~c, king(after, c))
    IN  SelectSeq(pseudo, is_safe)

\* board.push(move): placement, side to move, castling rights, en passant square
\* and move stack after the move
Push(b, c, cr, ep, stack, m) ==
    LET p == b[m.from_square]
        cleaned == clean_castling_rights(b, cr) \ {m.from_square, m.to_square}
        cr2 == IF piece_type(p) = KING
               THEN {s \in cleaned : (s < 8) # c}
               ELSE cleaned
        ep2 == IF /\ piece_type(p) = PAWN
                  /\ (m.to_square - m.from_square \in {16, -16})
               THEN (m.from_square + m.to_square) \div 2
               ELSE -1
    IN  <<PiecesAfter(b, ep, m), ~c, cr2, ep2, Append(stack, m)>>

-----------------------------------------------------------------------------
(* Positions a board is constructed with: Board(), Board(fen).  A position *)
(* is <<placement, side to move, castling rights, en passant square>>; the *)
(* placement is written rank 8 first, as in a FEN.                         *)

FromRows(rows) == [s \in Squares |-> rows[8 - square_rank(s)][square_file(s) + 1]]

\* Board(): the initial position
InitialPosition ==
    LET o == 0
        P == 1   N == 2   B == 3   R == 4   Q == 5   K == 6
        p == 9   n == 10  b == 11  r == 12  q == 13  k == 14
    IN  <<FromRows(<< <<r, n, b, q, k, b, n, r>>,
                      <<p, p, p, p, p, p, p, p>>,
                      <<o, o, o, o, o, o, o, o>>,
                      <<o, o, o, o, o, o, o, o>>,
                      <<o, o, o, o, o, o, o, o>>,
                      <<o, o, o, o, o, o, o, o>>,
                      <<P, P, P, P, P, P, P, P>>,
                      <<R, N, B, Q, K, B, N, R>> >>),
          WHITE, {0, 7, 56, 63}, -1>>

\* test_castling: r1bqk2r/pppp1ppp/2n2n2/2b1p3/2B1P3/5N2/PPPP1PPP/RNBQK2R w KQkq - 4 4
CastlingPosition ==
    LET o == 0
        P == 1   N == 2   B == 3   R == 4   Q == 5   K == 6
        p == 9   n == 10  b == 11  r == 12  q == 13  k == 14
    IN  <<FromRows(<< <<r, o, b, q, k, o, o, r>>,
                      <<p, p, p, p, o, p, p, p>>,
                      <<o, o, n, o, o, n, o, o>>,
                      <<o, o, b, o, p, o, o, o>>,
                      <<o, o, B, o, P, o, o, o>>,
                      <<o, o, o, o, o, N, o, o>>,
                      <<P, P, P, P, o, P, P, P>>,
                      <<R, N, B, Q, K, o, o, R>> >>),
          WHITE, {0, 7, 56, 63}, -1>>

\* the same position with Black to move
CastlingPositionBlack ==
    <<CastlingPosition[1], BLACK, {0, 7, 56, 63}, -1>>

\* pawns of both sides one step from promotion, by advance and by capture:
\* r3k2r/1P4P1/8/8/8/8/1p4p1/R3K2R
PromotionRows ==
    LET o == 0
        P == 1   R == 4   K == 6
        p == 9   r == 12  k == 14
    IN  FromRows(<< <<r, o, o, o, k, o, o, r>>,
                    <<o, P, o, o, o, o, P, o>>,
                    <<o, o, o, o, o, o, o, o>>,
                    <<o, o, o, o, o, o, o, o>>,
                    <<o, o, o, o, o, o, o, o>>,
                    <<o, o, o, o, o, o, o, o>>,
                    <<o, p, o, o, o, o, p, o>>,
                    <<R, o, o, o, K, o, o, R>> >>)

PromotionPosition == <<PromotionRows, WHITE, {0, 7, 56, 63}, -1>>
\* Black to move, and Black has lost the right to castle king side
PromotionPositionBlack == <<PromotionRows, BLACK, {0, 7, 56}, -1>>

\* after 1. P-K4 P-Q4: rnbqkbnr/ppp1pppp/8/3p4/4P3/8/PPPP1PPP/RNBQKBNR w KQkq d6
CentrePosition ==
    LET o == 0
        P == 1   N == 2   B == 3   R == 4   Q == 5   K == 6
        p == 9   n == 10  b == 11  r == 12  q == 13  k == 14
    IN  <<FromRows(<< <<r, n, b, q, k, b, n, r>>,
                      <<p, p, p, o, p, p, p, p>>,
                      <<o, o, o, o, o, o, o, o>>,
                      <<o, o, o, p, o, o, o, o>>,
                      <<o, o, o, o, P, o, o, o>>,
                      <<o, o, o, o, o, o, o, o>>,
                      <<P, P, P, P, o, P, P, P>>,
                      <<R, N, B, Q, K, B, N, R>> >>),
          WHITE, {0, 7, 56, 63}, 43>>

Positions == {InitialPosition, CastlingPosition, CastlingPositionBlack,
              PromotionPosition, PromotionPositionBlack, CentrePosition}

\* two white knights on the king's side, one move from QB3 (empty) and from KB3
\* (a black pawn): 4k3/8/8/8/8/5p2/4N3/4K1N1 w - -
KnightsPosition ==
    LET o == 0
        N == 2   K == 6
        p == 9   k == 14
    IN  <<FromRows(<< <<o, o, o, o, k, o, o, o>>,
                      <<o, o, o, o, o, o, o, o>>,
                      <<o, o, o, o, o, o, o, o>>,
                      <<o, o, o, o, o, o, o, o>>,
                      <<o, o, o, o, o, o, o, o>>,
                      <<o, o, o, o, o, p, o, o>>,
                      <<o, o, o, o, N, o, o, o>>,
                      <<o, o, o, o, K, o, N, o>> >>),
          WHITE, {}, -1>>

\* the positions the texts of FormInputs are parsed in
FormPositions == Positions \cup {KnightsPosition}

\* after 1. P-K4 P-QR3 2. P-K5 P-Q4: White may take the queen's pawn in passing,
\* and has no other capture: rnbqkbnr/1pp1pppp/p7/3pP3/8/8/PPPP1PPP/RNBQKBNR w KQkq d6
EnPassantPosition ==
    LET o == 0
        P == 1   N == 2   B == 3   R == 4   Q == 5   K == 6
        p == 9   n == 10  b == 11  r == 12  q == 13  k == 14
    IN  <<FromRows(<< <<r, n, b, q, k, b, n, r>>,
                      <<o, p, p, o, p, p, p, p>>,
                      <<p, o, o, o, o, o, o, o>>,
                      <<o, o, o, p, P, o, o, o>>,
                      <<o, o, o, o, o, o, o, o>>,
                      <<o, o, o, o, o, o, o, o>>,
                      <<P, P, P, P, o, P, P, P>>,
                      <<R, N, B, Q, K, B, N, R>> >>),
          WHITE, {0, 7, 56, 63}, 43>>

\* the positions the texts of EdgeInputs are parsed in and moves are formatted in
EdgePositions == FormPositions \cup {EnPassantPosition}

-----------------------------------------------------------------------------
(* Text: Python's str operations and the regular expressions of the parser, *)
(* over sequences of one-character strings.  The alphabet has no newline,  *)
(* and the space is its only whitespace character.                         *)

LowerCase == <<"a", "b", "c", "d", "e", "f", "g", "h", "i", "j", "k", "l", "m",
               "n", "o", "p", "q", "r", "s", "t", "u", "v", "w", "x", "y", "z">>
UpperCase == <<"A", "B", "C", "D", "E", "F", "G", "H", "I", "J", "K", "L", "M",
               "N", "O", "P", "Q", "R", "S", "T", "U", "V", "W", "X", "Y", "Z">>
Digits == <<"0", "1", "2", "3", "4", "5", "6", "7", "8", "9">>

IsSpace(c) == c = " "
IsUpper(c) == \E i \in 1..26 : UpperCase[i] = c
IsDigit(c) == \E i \in 1..10 : Digits[i] = c
DigitValue(c) == (CHOOSE i \in 1..10 : Digits[i] = c) - 1

\* str.upper()
CharUpper(c) ==
    IF \E i \in 1..26 : LowerCase[i] = c
    THEN UpperCase[CHOOSE i \in 1..26 : LowerCase[i] = c]
    ELSE c
upper(s) == [i \in 1..Len(s) |-> CharUpper(s[i])]

\* s[i:] and s[:i] with Python's 0-based index i
From(s, i) == SubSeq(s, i + 1, Len(s))
UpTo(s, i) == SubSeq(s, 1, i)

\* str.strip()
strip(s) ==
    IF \A i \in 1..Len(s) : IsSpace(s[i]) THEN <<>>
    ELSE LET first == CHOOSE i \in 1..Len(s) :
                          ~IsSpace(s[i]) /\ \A j \in 1..(i - 1) : IsSpace(s[j])
             last == CHOOSE i \in 1..Len(s) :
                          ~IsSpace(s[i]) /\ \A j \in (i + 1)..Len(s) : IsSpace(s[j])
         IN  SubSeq(s, first, last)

\* str.startswith(prefix)
startswith(s, prefix) ==
    Len(s) >= Len(prefix) /\ SubSeq(s, 1, Len(prefix)) = prefix

\* c in s
contains(s, c) == \E i \in 1..Len(s) : s[i] = c

\* s.replace(c, '') for every c of a set of characters
remove(s, chars) ==
    LET keep(c) == c \notin chars
    IN  SelectSeq(s, keep)

\* faulty variant of AnnotationAt: the pattern without its en passant alternative
AnnotationAt_without_ep(s, k) ==
    LET at(i, c) == i <= Len(s) /\ CharUpper(s[i]) = c
    IN  \/ at(k, "C") /\ at(k + 1, "H")
        \/ at(k, "+")
        \/ at(k, "M") /\ at(k + 1, "A") /\ at(k + 2, "T") /\ at(k + 3, "E")
        \/ at(k, "#")

\* whether (ch|check|\+|mate|#|e\.?\s*p\.?) matches at 1-based position k of s,
\* ignoring case
AnnotationAt(s, k) ==
    LET at(i, c) == i <= Len(s) /\ CharUpper(s[i]) = c
        d == IF at(k + 1, ".") THEN k + 2 ELSE k + 1
    IN  \/ at(k, "C") /\ at(k + 1, "H")
        \/ at(k, "+")
        \/ at(k, "M") /\ at(k + 1, "A") /\ at(k + 2, "T") /\ at(k + 3, "E")
        \/ at(k, "#")
        \/ /\ at(k, "E")
           /\ \E j \in d..Len(s) :
                 /\ CharUpper(s[j]) = "P"
                 /\ \A i \in d..(j - 1) : IsSpace(s[i])

\* re.sub(r'\s*(ch|check|\+|mate|#|e\.?\s*p\.?).*$', '', s, flags=re.IGNORECASE):
\* the text before the leftmost match, which runs to the end of the text.  The
\* leftmost match starts at the whitespace that runs up to the first annotation.
strip_annotation(s) ==
    LET hits == {k \in 1..Len(s) : AnnotationAt(s, k)}
    IN  IF hits = {} THEN s
        ELSE LET k == CHOOSE x \in hits : \A y \in hits : x <= y
                 start == CHOOSE i \in 1..k :
                              /\ \A j \in i..(k - 1) : IsSpace(s[j])
                              /\ i = 1 \/ ~IsSpace(s[i - 1])
             IN  UpTo(s, start - 1)

\* int(re.search(r'(\d+)', s).group(1)): the first run of digits, -1 for no match
RECURSIVE DigitsValue(_, _)
DigitsValue(s, acc) ==
    IF s = <<>> \/ ~IsDigit(Head(s)) THEN acc
    ELSE DigitsValue(Tail(s), acc * 10 + DigitValue(Head(s)))

search_digits(s) ==
    IF \E i \in 1..Len(s) : IsDigit(s[i])
    THEN LET first == CHOOSE i \in 1..Len(s) :
                          IsDigit(s[i]) /\ \A j \in 1..(i - 1) : ~IsDigit(s[j])
         IN  DigitsValue(From(s, first - 1), 0)
    ELSE -1

\* the first move of a sequence, None when it is empty
First(seq) == IF seq = <<>> THEN None ELSE seq[1]

-----------------------------------------------------------------------------
(* DescriptiveNotationParser.  `self` is the parser instance: the board it *)
(* holds (pieces, turn, castling_rights, legal_moves) and is_white_turn.   *)

Parser(b, t, cr, lm, iwt) ==
    [pieces |-> b, turn |-> t, castling_rights |-> cr, legal_moves |-> lm,
     is_white_turn |-> iwt]

\* FILE_MAP.get(file_desc); "" stands for Python's None
FILE_MAP(file_desc) ==
    CASE file_desc = <<"Q", "R">> -> "a"
      [] file_desc = <<"Q", "N">> -> "b"
      [] file_desc = <<"Q", "B">> -> "c"
      [] file_desc = <<"Q">>      -> "d"
      [] file_desc = <<"K">>      -> "e"
      [] file_desc = <<"K", "B">> -> "f"
      [] file_desc = <<"K", "N">> -> "g"
      [] file_desc = <<"K", "R">> -> "h"
      [] OTHER                    -> ""

\* AMBIGUOUS_FILES.get(abbrev, [])
AMBIGUOUS_FILES(abbrev) ==
    CASE abbrev = "R" -> <<"a", "h">>
      [] abbrev = "N" -> <<"b", "g">>
      [] abbrev = "B" -> <<"c", "f">>
      [] OTHER        -> <<>>

\* QUALIFIED_PIECES.get(qualified_name): <<piece_char, side_qualifier>>, <<>> for None
QUALIFIED_PIECES(name) ==
    CASE name = <<"Q", "R">> -> <<"R", "Q">>
      [] name = <<"K", "R">> -> <<"R", "K">>
      [] name = <<"Q", "N">> -> <<"N", "Q">>
      [] name = <<"K", "N">> -> <<"N", "K">>
      [] name = <<"Q", "B">> -> <<"B", "Q">>
      [] name = <<"K", "B">> -> <<"B", "K">>
      [] OTHER               -> <<>>

\* piece_map.get(piece_char); 0 stands for None
piece_map(piece_char) ==
    CASE piece_char = "P" -> 1
      [] piece_char = "R" -> 4
      [] piece_char = "N" -> 2
      [] piece_char = "B" -> 3
      [] piece_char = "Q" -> 5
      [] piece_char = "K" -> 6
      [] OTHER            -> 0

\* promo_map.get(promo_piece)
promo_map(promo_piece) ==
    CASE promo_piece = "Q" -> 5
      [] promo_piece = "R" -> 4
      [] promo_piece = "B" -> 3
      [] promo_piece = "N" -> 2
      [] OTHER             -> 0

_descriptive_file_to_standard(file_desc) == FILE_MAP(file_desc)

\* faulty variant of _descriptive_rank_to_standard: White's numbering for both sides
_descriptive_rank_to_standard_white_only(self, rank_desc) == rank_desc - 1

\* faulty variant of _descriptive_rank_to_standard: the rank is wrapped onto the board
_descriptive_rank_to_standard_wrapped(self, rank_desc) ==
    IF self.is_white_turn
    THEN (rank_desc - 1) % 8
    ELSE (8 - rank_desc) % 8

_descriptive_rank_to_standard(self, rank_desc) ==
    IF self.is_white_turn
    THEN rank_desc - 1
    ELSE 8 - rank_desc

\* ord(file) - ord('a')
FileIndex(file) ==
    CHOOSE i \in 0..7 : SubSeq(LowerCase, 1, 8)[i + 1] = file

_file_rank_to_square(file, rank) == rank * 8 + FileIndex(file)

\* faulty variant of _parse_castling_kingside: the move is returned only when the
\* oracle lists it as legal
_parse_castling_kingside_if_legal(self) ==
    LET m == IF self.is_white_turn THEN Move(4, 6, 0) ELSE Move(60, 62, 0)
    IN  IF /\ has_kingside_castling_rights(self.pieces, self.castling_rights,
                                           self.is_white_turn)
           /\ \E i \in 1..Len(self.legal_moves) : self.legal_moves[i] = m
        THEN m ELSE None

\* faulty variant of _parse_castling_kingside: it asks for the queen-side right
_parse_castling_kingside_queenside_right(self) ==
    IF self.is_white_turn
    THEN IF has_queenside_castling_rights(self.pieces, self.castling_rights, WHITE)
         THEN Move(4, 6, 0) ELSE None
    ELSE IF has_queenside_castling_rights(self.pieces, self.castling_rights, BLACK)
         THEN Move(60, 62, 0) ELSE None

_parse_castling_kingside(self) ==
    IF self.is_white_turn
    THEN IF has_kingside_castling_rights(self.pieces, self.castling_rights, WHITE)
         THEN Move(4, 6, 0) ELSE None
    ELSE IF has_kingside_castling_rights(self.pieces, self.castling_rights, BLACK)
         THEN Move(60, 62, 0) ELSE None

_parse_castling_queenside(self) ==
    IF self.is_white_turn
    THEN IF has_queenside_castling_rights(self.pieces, self.castling_rights, WHITE)
         THEN Move(4, 2, 0) ELSE None
    ELSE IF has_queenside_castling_rights(self.pieces, self.castling_rights, BLACK)
         THEN Move(60, 58, 0) ELSE None

\* re.match(r'P-([A-Z]+)(\d+)\(([QRBN])\)', notation): <<file_desc, rank_desc,
\* promo_piece>>, <<>> when there is no match
PromotionMatch(n) ==
    IF ~startswith(n, <<"P", "-">>) THEN <<>>
    ELSE LET r == From(n, 2)
             nl == IF \E i \in 1..Len(r) : ~IsUpper(r[i])
                   THEN (CHOOSE i \in 1..Len(r) :
                            ~IsUpper(r[i]) /\ \A j \in 1..(i - 1) : IsUpper(r[j])) - 1
                   ELSE Len(r)
             r2 == From(r, nl)
             nd == IF \E i \in 1..Len(r2) : ~IsDigit(r2[i])
                   THEN (CHOOSE i \in 1..Len(r2) :
                            ~IsDigit(r2[i]) /\ \A j \in 1..(i - 1) : IsDigit(r2[j])) - 1
                   ELSE Len(r2)
             r3 == From(r2, nd)
         IN  IF /\ nl >= 1
                /\ nd >= 1
                /\ Len(r3) >= 3
                /\ r3[1] = "("
                /\ r3[2] \in {"Q", "R", "B", "N"}
                /\ r3[3] = ")"
             THEN <<UpTo(r, nl), DigitsValue(r2, 0), r3[2]>>
             ELSE <<>>

\* faulty variant of _parse_promotion: the first promotion to the square, of any kind
_parse_promotion_any_kind(self, notation) ==
    LET match == PromotionMatch(notation)
    IN  IF match = <<>> THEN None
        ELSE LET target_file == _descriptive_file_to_standard(match[1])
                 target_rank == _descriptive_rank_to_standard(self, match[2])
             IN  IF target_file = "" THEN None
                 ELSE LET target_square == _file_rank_to_square(target_file, target_rank)
                          wanted(move) ==
                              /\ move.to_square = target_square
                              /\ move.promotion # 0
                      IN  First(SelectSeq(self.legal_moves, wanted))

\* faulty variant of _parse_promotion: the move is built from the pawn that stands
\* one rank behind the square, and the oracle's legal moves are not consulted
_parse_promotion_constructed(self, notation) ==
    LET match == PromotionMatch(notation)
    IN  IF match = <<>> THEN None
        ELSE LET target_file == _descriptive_file_to_standard(match[1])
                 target_rank == _descriptive_rank_to_standard(self, match[2])
             IN  IF target_file = "" THEN None
                 ELSE LET target_square == _file_rank_to_square(target_file, target_rank)
                          origin == target_square + (IF self.is_white_turn THEN -8 ELSE 8)
                      IN  IF piece_at(self.pieces, origin) = Piece(PAWN, self.is_white_turn)
                          THEN Move(origin, target_square, promo_map(match[3]))
                          ELSE None

_parse_promotion(self, notation) ==
    LET match == PromotionMatch(notation)
    IN  IF match = <<>> THEN None
        ELSE LET target_file == _descriptive_file_to_standard(match[1])
                 target_rank == _descriptive_rank_to_standard(self, match[2])
             IN  IF target_file = "" THEN None
                 ELSE LET target_square == _file_rank_to_square(target_file, target_rank)
                          wanted(move) ==
                              /\ move.to_square = target_square
                              /\ move.promotion # 0
                              /\ move.promotion = promo_map(match[3])
                      IN  First(SelectSeq(self.legal_moves, wanted))

\* the destination of a move text: the file pattern (longest first), else the
\* abbreviated file letter, then the first run of digits of what is left.
\* file_desc <<>>, ambiguous_file "" and rank_desc -1 stand for None.
Destination(notation) ==
    LET patterns == << <<"Q", "R">>, <<"Q", "N">>, <<"Q", "B">>, <<"K", "R">>,
                       <<"K", "N">>, <<"K", "B">>, <<"Q">>, <<"K">> >>
        hits == SelectSeq(patterns, LAMBDA f : startswith(notation, f))
        file_desc == IF hits = <<>> THEN <<>> ELSE hits[1]
        ambiguous_file ==
            IF file_desc = <<>> /\ notation # <<>> /\ notation[1] \in {"R", "N", "B"}
            THEN notation[1] ELSE ""
        rest == IF file_desc # <<>> THEN From(notation, Len(file_desc))
                ELSE IF ambiguous_file # "" THEN From(notation, 1)
                ELSE notation
    IN  [file_desc |-> file_desc, ambiguous_file |-> ambiguous_file,
         rank_desc |-> search_digits(rest)]

\* the legal moves to target_square by a piece of piece_type of the side to move
Candidates(self, target_square, type) ==
    LET fits(move) ==
            /\ move.to_square = target_square
            /\ self.pieces[move.from_square] # 0
            /\ piece_type(self.pieces[move.from_square]) = type
            /\ piece_color(self.pieces[move.from_square]) = self.turn
    IN  SelectSeq(self.legal_moves, fits)

\* one move of several candidates: a capture when the text has a capture marker
\* and one of them captures, else the first
Choose(self, candidates, is_capture) ==
    LET captures(move) == piece_at(self.pieces, move.to_square) # 0
    IN  IF Len(candidates) = 1 THEN candidates[1]
        ELSE IF Len(candidates) > 1
        THEN IF is_capture /\ SelectSeq(candidates, captures) # <<>>
             THEN SelectSeq(candidates, captures)[1]
             ELSE candidates[1]
        ELSE None

\* faulty variant of DestinationMove: of the two files of an abbreviated file
\* letter only the first is tried
DestinationMove_first_file_only(self, dest, type, is_capture) ==
    LET target_rank == _descriptive_rank_to_standard(self, dest.rank_desc)
        target_file == IF dest.ambiguous_file # ""
                       THEN AMBIGUOUS_FILES(dest.ambiguous_file)[1]
                       ELSE _descriptive_file_to_standard(dest.file_desc)
    IN  IF target_file = "" THEN None
        ELSE Choose(self,
                    Candidates(self, _file_rank_to_square(target_file, target_rank), type),
                    is_capture)

\* the moves to the destination dest by a piece of a type: to the two squares of
\* an abbreviated file letter (first file first), or to the square of a file token
DestinationMove(self, dest, type, is_capture) ==
    LET target_rank == _descriptive_rank_to_standard(self, dest.rank_desc)
    IN  IF dest.ambiguous_file # ""
        THEN LET possible_files == AMBIGUOUS_FILES(dest.ambiguous_file)
                 all_candidates == Flatten([i \in 1..Len(possible_files) |->
                     Candidates(self,
                                _file_rank_to_square(possible_files[i], target_rank),
                                type)])
             IN  Choose(self, all_candidates, is_capture)
        ELSE LET target_file == _descriptive_file_to_standard(dest.file_desc)
             IN  IF target_file = "" THEN None
                 ELSE Choose(self,
                             Candidates(self,
                                        _file_rank_to_square(target_file, target_rank),
                                        type),
                             is_capture)

\* faulty variant of _parse_generic_capture: the kind of the captured piece is
\* not looked at
_parse_generic_capture_any_kind(self, piece_char, captured_type) ==
    LET type == piece_map(piece_char)
        fits(move) ==
            LET piece == self.pieces[move.from_square]
            IN  /\ piece # 0
                /\ piece_type(piece) = type
                /\ piece_color(piece) = self.turn
                /\ piece_at(self.pieces, move.to_square) # 0
    IN  IF type = 0 THEN None
        ELSE First(SelectSeq(self.legal_moves, fits))

\* faulty variant of _parse_generic_capture: a pawn that takes in passing counts as
\* a capture of a pawn
_parse_generic_capture_with_en_passant(self, piece_char, captured_type) ==
    LET type == piece_map(piece_char)
        target_piece_type == IF captured_type # "" THEN piece_map(captured_type) ELSE 0
        fits(move) ==
            LET piece == self.pieces[move.from_square]
                captured == piece_at(self.pieces, move.to_square)
                in_passing == /\ piece_type(piece) = PAWN
                              /\ captured = 0
                              /\ move.from_square % 8 # move.to_square % 8
            IN  /\ piece # 0
                /\ piece_type(piece) = type
                /\ piece_color(piece) = self.turn
                /\ captured # 0 \/ in_passing
                /\ \/ target_piece_type = 0
                   \/ captured # 0 /\ piece_type(captured) = target_piece_type
                   \/ in_passing /\ target_piece_type = PAWN
    IN  IF type = 0 THEN None
        ELSE First(SelectSeq(self.legal_moves, fits))

\* captured_type "" stands for None
_parse_generic_capture(self, piece_char, captured_type) ==
    LET type == piece_map(piece_char)
        target_piece_type == IF captured_type # "" THEN piece_map(captured_type) ELSE 0
        fits(move) ==
            LET piece == self.pieces[move.from_square]
                captured == piece_at(self.pieces, move.to_square)
            IN  /\ piece # 0
                /\ piece_type(piece) = type
                /\ piece_color(piece) = self.turn
                /\ captured # 0
                /\ (target_piece_type = 0 \/ piece_type(captured) = target_piece_type)
    IN  IF type = 0 THEN None
        ELSE First(SelectSeq(self.legal_moves, fits))

_parse_piece_move(self, notation) ==
    LET piece_char == notation[1]
        tail == From(notation, 1)
        is_capture == contains(tail, "x") \/ contains(tail, "X")
        rest == remove(tail, {"-", "x", "X"})
        dest == Destination(rest)
    IN  IF rest \in {<<"P">>, <<"R">>, <<"N">>, <<"B">>, <<"Q">>, <<"K">>, <<>>}
        THEN _parse_generic_capture(self, piece_char, IF rest = <<>> THEN "" ELSE rest[1])
        ELSE IF (dest.file_desc = <<>> /\ dest.ambiguous_file = "") \/ dest.rank_desc = -1
        THEN None
        ELSE IF piece_map(piece_char) = 0 THEN None
        ELSE DestinationMove(self, dest, piece_map(piece_char), is_capture)

\* faulty variant of QualifiedChoice: the side qualifier is not looked at
QualifiedChoice_first(candidates, side_qualifier) ==
    IF Len(candidates) = 0 THEN None ELSE candidates[1]

\* faulty variant of QualifiedChoice: a candidate on the other side is never returned
QualifiedChoice_strict(candidates, side_qualifier) ==
    LET on_side(move) ==
            LET from_file == move.from_square % 8
            IN  \/ side_qualifier = "Q" /\ from_file <= 3
                \/ side_qualifier = "K" /\ from_file >= 4
    IN  IF SelectSeq(candidates, on_side) # <<>>
        THEN SelectSeq(candidates, on_side)[1]
        ELSE None

\* the first candidate whose origin file is on the qualifier's side, else the first
QualifiedChoice(candidates, side_qualifier) ==
    LET on_side(move) ==
            LET from_file == move.from_square % 8
            IN  \/ side_qualifier = "Q" /\ from_file <= 3
                \/ side_qualifier = "K" /\ from_file >= 4
    IN  IF Len(candidates) = 0 THEN None
        ELSE IF Len(candidates) = 1 THEN candidates[1]
        ELSE IF SelectSeq(candidates, on_side) # <<>>
        THEN SelectSeq(candidates, on_side)[1]
        ELSE candidates[1]

_parse_qualified_capture(self, piece_char, side_qualifier) ==
    LET type == piece_map(piece_char)
        fits(move) ==
            LET piece == self.pieces[move.from_square]
            IN  /\ piece # 0
                /\ piece_type(piece) = type
                /\ piece_color(piece) = self.turn
                /\ piece_at(self.pieces, move.to_square) # 0
    IN  IF type = 0 THEN None
        ELSE QualifiedChoice(SelectSeq(self.legal_moves, fits), side_qualifier)

_parse_qualified_piece_move(self, notation) ==
    LET piece_info == QUALIFIED_PIECES(UpTo(notation, 2))
        tail == From(notation, 2)
        rest == remove(tail, {"-", "x", "X"})
        dest == Destination(rest)
        target_rank == _descriptive_rank_to_standard(self, dest.rank_desc)
        target_squares ==
            IF dest.ambiguous_file # ""
            THEN {_file_rank_to_square(AMBIGUOUS_FILES(dest.ambiguous_file)[i], target_rank) :
                     i \in 1..2}
            ELSE IF _descriptive_file_to_standard(dest.file_desc) # ""
            THEN {_file_rank_to_square(_descriptive_file_to_standard(dest.file_desc),
                                       target_rank)}
            ELSE {}
        fits(move) ==
            /\ move.to_square \in target_squares
            /\ self.pieces[move.from_square] # 0
            /\ piece_type(self.pieces[move.from_square]) = piece_map(piece_info[1])
            /\ piece_color(self.pieces[move.from_square]) = self.turn
    IN  IF piece_info = <<>> THEN None
        ELSE IF rest = <<"P">> \/ rest = <<>>
        THEN _parse_qualified_capture(self, piece_info[1], piece_info[2])
        ELSE IF (dest.file_desc = <<>> /\ dest.ambiguous_file = "") \/ dest.rank_desc = -1
        THEN None
        ELSE IF piece_map(piece_info[1]) = 0 THEN None
        ELSE IF target_squares = {} THEN None
        ELSE QualifiedChoice(SelectSeq(self.legal_moves, fits), piece_info[2])

\* faulty variant of _parse_pawn_move: a text with nothing after the prefix and the
\* marker is no generic capture
_parse_pawn_move_needs_text(self, notation) ==
    LET tail == IF startswith(notation, <<"P", "-">>) THEN From(notation, 2)
                ELSE IF startswith(notation, <<"P">>) THEN From(notation, 1)
                ELSE notation
        is_capture == contains(tail, "x") \/ contains(tail, "X")
        remaining == remove(tail, {"x", "X"})
        dest == Destination(remaining)
    IN  IF remaining \in {<<"P">>, <<"N">>, <<"B">>, <<"R">>, <<"Q">>}
        THEN _parse_generic_capture(self, "P", remaining[1])
        ELSE IF (dest.file_desc = <<>> /\ dest.ambiguous_file = "") \/ dest.rank_desc = -1
        THEN None
        ELSE DestinationMove(self, dest, 1, is_capture)

_parse_pawn_move(self, notation) ==
    LET tail == IF startswith(notation, <<"P", "-">>) THEN From(notation, 2)
                ELSE IF startswith(notation, <<"P">>) THEN From(notation, 1)
                ELSE notation
        is_capture == contains(tail, "x") \/ contains(tail, "X")
        remaining == remove(tail, {"x", "X"})
        dest == Destination(remaining)
    IN  IF remaining \in {<<"P">>, <<"N">>, <<"B">>, <<"R">>, <<"Q">>, <<>>}
        THEN _parse_generic_capture(self, "P",
                                    IF remaining = <<>> THEN "" ELSE remaining[1])
        ELSE IF (dest.file_desc = <<>> /\ dest.ambiguous_file = "") \/ dest.rank_desc = -1
        THEN None
        ELSE DestinationMove(self, dest, 1, is_capture)

\* the text parse dispatches on: stripped, upper-cased, annotation removed
Normalize(notation) == strip_annotation(upper(strip(notation)))

parse(self, text) ==
    LET notation == Normalize(text)
        qualified == \E q \in {<<"Q", "R">>, <<"K", "R">>, <<"Q", "N">>,
                               <<"K", "N">>, <<"Q", "B">>, <<"K", "B">>} :
                        startswith(notation, q)
    IN  IF notation = <<"O", "-", "O">> \/ notation = <<"0", "-", "0">>
        THEN _parse_castling_kingside(self)
        ELSE IF \/ notation = <<"O", "-", "O", "-", "O">>
                \/ notation = <<"0", "-", "0", "-", "0">>
        THEN _parse_castling_queenside(self)
        ELSE IF contains(notation, "(") /\ contains(notation, ")")
        THEN _parse_promotion(self, notation)
        ELSE IF qualified /\ Len(notation) > 2 /\ notation[3] \in {"-", "x", "X"}
        THEN _parse_qualified_piece_move(self, notation)
        ELSE IF \E c \in {"R", "N", "B", "Q"} : startswith(notation, <<c>>)
        THEN _parse_piece_move(self, notation)
        ELSE IF startswith(notation, <<"K">>)
        THEN IF Len(notation) > 1 /\ notation[2] \in {"-", "x", "X"}
             THEN _parse_piece_move(self, notation)
             ELSE IF \E f \in {<<"K", "B">>, <<"K", "N">>, <<"K", "R">>} :
                        startswith(notation, f)
             THEN _parse_pawn_move(self, notation)
             ELSE LET king_move == _parse_piece_move(self, notation)
                  IN  IF king_move # None THEN king_move
                      ELSE _parse_pawn_move(self, notation)
        ELSE _parse_pawn_move(self, notation)

-----------------------------------------------------------------------------
(* MoveToDescriptive.                                                      *)

\* FILE_NAMES[file]
FILE_NAMES(file) ==
    CASE file = 0 -> <<"Q", "R">>
      [] file = 1 -> <<"Q", "N">>
      [] file = 2 -> <<"Q", "B">>
      [] file = 3 -> <<"Q">>
      [] file = 4 -> <<"K">>
      [] file = 5 -> <<"K", "B">>
      [] file = 6 -> <<"K", "N">>
      [] file = 7 -> <<"K", "R">>

\* PIECE_LETTERS.get(piece_type, '')
PIECE_LETTERS(type) ==
    CASE type = 1 -> <<"P">>
      [] type = 2 -> <<"N">>
      [] type = 3 -> <<"B">>
      [] type = 4 -> <<"R">>
      [] type = 5 -> <<"Q">>
      [] type = 6 -> <<"K">>
      [] OTHER    -> <<>>

\* str(n) for n in 0..9
Str(n) == <<Digits[n + 1]>>

\* chess.square_name(square)
square_name(sq) == <<LowerCase[square_file(sq) + 1]>> \o Str(square_rank(sq) + 1)

\* move.uci()
uci(m) ==
    square_name(m.from_square) \o square_name(m.to_square)
    \o (CASE m.promotion = 2 -> <<"n">>
          [] m.promotion = 3 -> <<"b">>
          [] m.promotion = 4 -> <<"r">>
          [] m.promotion = 5 -> <<"q">>
          [] OTHER           -> <<>>)

\* faulty variant of convert: the rank is numbered from White's side for both colours
convert_white_ranks(b, move) ==
    IF is_castling(b, move)
    THEN IF is_kingside_castling(b, move)
         THEN <<"O", "-", "O">>
         ELSE <<"O", "-", "O", "-", "O">>
    ELSE
    LET from_sq == move.from_square
        to_sq == move.to_square
        piece == piece_at(b, from_sq)
        captured == piece_at(b, to_sq)
        piece_letter == PIECE_LETTERS(piece_type(piece))
        to_file == to_sq % 8
        to_rank == to_sq \div 8
        rank_num == to_rank + 1
        file_name == FILE_NAMES(to_file)
        text == IF captured # 0
                THEN IF piece_type(piece) = 1
                     THEN FILE_NAMES(from_sq % 8) \o <<"P", "x">> \o file_name \o Str(rank_num)
                     ELSE piece_letter \o <<"x">> \o file_name \o Str(rank_num)
                ELSE piece_letter \o <<"-">> \o file_name \o Str(rank_num)
    IN  IF piece = 0 THEN uci(move)
        ELSE IF move.promotion # 0
        THEN text \o <<"(">> \o PIECE_LETTERS(move.promotion) \o <<")">>
        ELSE text

\* MoveToDescriptive.convert(board, move), b the placement of the board
convert(b, move) ==
    IF is_castling(b, move)
    THEN IF is_kingside_castling(b, move)
         THEN <<"O", "-", "O">>
         ELSE <<"O", "-", "O", "-", "O">>
    ELSE
    LET from_sq == move.from_square
        to_sq == move.to_square
        piece == piece_at(b, from_sq)
        captured == piece_at(b, to_sq)
        piece_letter == PIECE_LETTERS(piece_type(piece))
        to_file == to_sq % 8
        to_rank == to_sq \div 8
        rank_num == IF piece_color(piece) THEN to_rank + 1 ELSE 8 - to_rank
        file_name == FILE_NAMES(to_file)
        text == IF captured # 0
                THEN IF piece_type(piece) = 1
                     THEN FILE_NAMES(from_sq % 8) \o <<"P", "x">> \o file_name \o Str(rank_num)
                     ELSE piece_letter \o <<"x">> \o file_name \o Str(rank_num)
                ELSE piece_letter \o <<"-">> \o file_name \o Str(rank_num)
    IN  IF piece = 0 THEN uci(move)
        ELSE IF move.promotion # 0
        THEN text \o <<"(">> \o PIECE_LETTERS(move.promotion) \o <<")">>
        ELSE text

-----------------------------------------------------------------------------
(* The texts handed to parse.                                              *)

FileTokens == {<<"Q", "R">>, <<"Q", "N">>, <<"Q", "B">>, <<"Q">>,
               <<"K">>, <<"K", "B">>, <<"K", "N">>, <<"K", "R">>}
PromotionLetters == {"Q", "R", "B", "N"}

\* 'P-<file><rank>(<L>)'
PromotionText(f, r, l) == <<"P", "-">> \o f \o Str(r) \o <<"(", l, ")">>

\* promotions on the eighth rank for the eight file tokens and the four letters,
\* and on the first rank for the two knight files
PromotionInputs ==
    {PromotionText(f, 8, l) : f \in FileTokens, l \in PromotionLetters}
    \cup {PromotionText(f, 1, l) : f \in {<<"Q", "N">>, <<"K", "N">>}, l \in {"Q", "N"}}

CastlingInputs == {<<"O", "-", "O">>, <<"0", "-", "0">>,
                   <<"O", "-", "O", "-", "O">>, <<"0", "-", "0", "-", "0">>}

PawnInputs == {<<"P", "-", "K", "4">>, <<"P", "-", "Q", "4">>, <<"K", "4">>,
               <<"K", "R", "4">>, <<"P", "-", "B", "4">>, <<"P", "x", "Q", "5">>,
               <<"P", "x", "P">>, <<"P", "x", "R">>, <<"P", "x">>}

PieceInputs == {<<"N", "-", "K", "B", "3">>, <<"N", "-", "B", "3">>,
                <<"B", "-", "N", "5">>, <<"Q", "-", "K", "2">>,
                <<"K", "-", "K", "2">>, <<"R", "-", "K", "B", "1">>,
                <<"B", "x", "K", "B", "7">>, <<"N", "x", "P">>, <<"B", "x", "P">>,
                <<"R", "x", "R">>, <<"K", "x", "P">>}

QualifiedInputs == {<<"K", "N", "-", "K", "B", "3">>, <<"Q", "N", "-", "B", "3">>,
                    <<"K", "R", "-", "K", "B", "1">>, <<"Q", "R", "x", "R">>,
                    <<"K", "B", "x", "P">>, <<"Q", "R", "x">>}

\* texts of the grammar, without annotation
GrammarInputs ==
    CastlingInputs \cup PromotionInputs \cup PawnInputs \cup PieceInputs
    \cup QualifiedInputs

\* check, mate and en passant annotations as they are typed
Annotations == {<<"c", "h">>, <<" ", "c", "h">>, <<"C", "h">>,
                <<" ", "c", "h", "e", "c", "k">>, <<"+">>, <<" ", "+", " ">>,
                <<"m", "a", "t", "e">>, <<" ", "M", "a", "t", "e", " ">>,
                <<"#">>, <<" ", "e", ".", "p", ".">>, <<"e", "p">>,
                <<" ", "E", ".", " ", "P", ".">>}

\* the texts that are typed with an annotation
AnnotatedBase == {<<"P", "-", "K", "4">>, <<"O", "-", "O">>, <<"P", "x", "P">>,
                  <<"P", "-", "K", "N", "8", "(", "Q", ")">>}

\* whitespace typed before the text
Leading == {<<>>, <<" ">>}

\* a text with whitespace before it and an annotation after it
Annotated(pre, s, a) == pre \o s \o a

AnnotatedInputs ==
    {Annotated(<<>>, s, a) : s \in AnnotatedBase, a \in Annotations}
    \cup {Annotated(<<" ">>, s, <<" ", "c", "h">>) : s \in AnnotatedBase}

\* the annotated texts, and the same texts without annotation
TextInputs == AnnotatedInputs \cup AnnotatedBase

\* texts with an unmatched parenthesis
UnmatchedInputs == {<<"P", "-", "K", "8", "(", "Q">>, <<"P", "-", "K", "8", "Q", ")">>,
                    <<"P", "-", "K", "N", "8", "(", "N">>,
                    <<"P", "-", "K", "N", "8", "Q", ")">>,
                    <<"P", "-", "K", "4", "(", "Q">>, <<"N", "-", "K", "B", "3", ")">>}

\* plain-piece and pawn texts whose destination is an abbreviated file letter
AbbreviatedInputs == {<<"N", "-", "B", "3">>, <<"B", "-", "N", "5">>,
                      <<"P", "-", "B", "4">>, <<"P", "-", "R", "4">>,
                      <<"N", "x", "B", "3">>, <<"R", "-", "N", "1">>,
                      <<"P", "x", "N", "8">>}

\* a two-letter prefix followed by a rank digit, or by '-' / 'x'
PrefixInputs == {<<"Q", "R", "4">>, <<"Q", "N", "3">>, <<"Q", "B", "3">>,
                 <<"K", "R", "4">>, <<"K", "N", "3">>, <<"K", "B", "3">>,
                 <<"Q", "R", "5">>, <<"K", "B", "4">>,
                 <<"Q", "N", "-", "Q", "B", "3">>, <<"K", "N", "x", "K", "B", "3">>}

\* captures without a destination: plain-piece, pawn and qualified
CaptureInputs == {<<"N", "x", "P">>, <<"B", "x", "P">>, <<"R", "x", "R">>,
                  <<"K", "x", "P">>, <<"Q", "x", "P">>, <<"R", "x">>,
                  <<"P", "x", "P">>, <<"P", "x", "R">>, <<"P", "x", "N">>,
                  <<"P", "x">>,
                  <<"Q", "R", "x", "P">>, <<"K", "R", "x", "P">>,
                  <<"Q", "R", "x", "R">>, <<"K", "N", "x", "P">>,
                  <<"K", "B", "x", "N">>, <<"Q", "R", "x">>}

\* qualified-piece texts with a destination
QualifiedDestinationInputs ==
    {<<"K", "N", "-", "K", "B", "3">>, <<"Q", "N", "-", "B", "3">>,
     <<"K", "N", "-", "B", "3">>, <<"Q", "N", "x", "B", "3">>,
     <<"K", "N", "x", "B", "3">>, <<"Q", "R", "-", "Q", "1">>,
     <<"K", "R", "-", "Q", "1">>, <<"K", "R", "-", "K", "B", "1">>}

\* texts with characters the destination grammar does not have
MalformedInputs == {<<"N", "-", "K", "B", "Z", "3">>, <<"P", "-", "K", "4", "Q">>,
                    <<"K", "N", "-", "K", "B", "3", "3">>, <<"P", "-", "K", "Z", "4">>,
                    <<"N", "-", "Z", "3">>, <<"P", "-", "K">>, <<"N", "-", "K", "B">>}

\* the texts of the forms above
FormInputs ==
    UnmatchedInputs \cup AbbreviatedInputs \cup PrefixInputs \cup CaptureInputs
    \cup QualifiedDestinationInputs \cup MalformedInputs

\* str(n) for n in 0..99
RankText(n) == IF n < 10 THEN Str(n) ELSE Str(n \div 10) \o Str(n % 10)

\* numbers that are no rank of the board
OutOfRangeRanks == {0, 9, 10, 11, 12, 16, 44}

\* what is typed before the rank digits: pawn, plain-piece and qualified-piece texts
RankPrefixes == {<<"P", "-", "K">>, <<"P", "-", "K", "N">>, <<"K">>, <<"P", "x", "Q">>,
                 <<"N", "-", "K", "B">>, <<"N", "-", "B">>, <<"R", "x", "R">>,
                 <<"K", "N", "-", "K", "B">>, <<"Q", "N", "-", "B">>,
                 <<"Q", "R", "-", "Q">>}

\* texts whose rank digits are no rank of the board, promotions among them
OutOfRangeInputs ==
    {pre \o RankText(n) : pre \in RankPrefixes, n \in OutOfRangeRanks}
    \cup {<<"P", "-">> \o f \o RankText(n) \o <<"(", l, ")">> :
              f \in {<<"K", "N">>, <<"Q", "N">>, <<"K", "R">>},
              n \in {0, 9, 16}, l \in {"Q", "N"}}

\* texts that are empty once stripped and freed of the annotation
EmptyInputs == {<<>>, <<" ">>, <<" ", " ">>, <<"+">>, <<"c", "h">>, <<"#">>,
                <<" ", "+", " ">>, <<"m", "a", "t", "e">>}

\* generic captures, with and without the en passant annotation
GenericCaptureInputs ==
    {<<"P", "x", "P">>, <<"P", "x">>, <<"P", "x", "N">>,
     <<"P", "x", "P", " ", "e", ".", "p", ".">>, <<"P", "x", "P", "e", "p">>,
     <<"P", "x", " ", "e", ".", "p", ".">>,
     <<"N", "x", "P">>, <<"Q", "x", "P">>, <<"B", "x">>,
     <<"K", "N", "x", "P">>, <<"Q", "R", "x", "P">>, <<"K", "B", "x">>}

EdgeInputs == OutOfRangeInputs \cup EmptyInputs \cup GenericCaptureInputs

-----------------------------------------------------------------------------
(* test_basic_moves: the notations and the moves (in UCI) it expects.      *)

test_cases == << <<<<"P", "-", "K", "4">>, <<"e", "2", "e", "4">>>>,
                 <<<<"P", "-", "K", "4">>, <<"e", "7", "e", "5">>>>,
                 <<<<"N", "-", "K", "B", "3">>, <<"g", "1", "f", "3">>>>,
                 <<<<"P", "-", "Q", "4">>, <<"d", "2", "d", "4">>>> >>

-----------------------------------------------------------------------------
(* The state machine.                                                      *)

\* no window is constructed: the parser and the formatter are called directly
NoGUI ==
    /\ board_states = <<>>
    /\ move_history = <<>>
    /\ move_notations = <<>>
    /\ current_move_index = 0
    /\ animating = FALSE
    /\ animations = <<>>
    /\ status = [msg |-> "", error |-> FALSE]
    /\ displayed = <<>>

\* the parser instance as it is now
Self == Parser(pieces, turn, castling_rights, legal_moves, is_white_turn)

IsLegal(m) == \E i \in 1..Len(legal_moves) : legal_moves[i] = m

\* board = Board() or Board(fen); parser = DescriptiveNotationParser(board)
Init ==
    \E pos \in Positions :
        /\ pieces = pos[1]
        /\ turn = pos[2]
        /\ castling_rights = pos[3]
        /\ ep_square = pos[4]
        /\ move_stack = <<>>
        /\ legal_moves = LegalMoves(pos[1], pos[2], pos[3], pos[4])
        /\ is_white_turn = pos[2]
        /\ notation_text = <<>>
        /\ result = None
        /\ formatted = None
        /\ test_i \in (IF pos = InitialPosition THEN {0, 1} ELSE {0})
        /\ pc = "ready"
        /\ NoGUI

\* board.push(m), with the legal moves of the new position
PushBoard(m) ==
    LET after == Push(pieces, turn, castling_rights, ep_square, move_stack, m)
    IN  /\ pieces' = after[1]
        /\ turn' = after[2]
        /\ castling_rights' = after[3]
        /\ ep_square' = after[4]
        /\ move_stack' = after[5]
        /\ legal_moves' = LegalMoves(after[1], after[2], after[3], after[4])

\* faulty variant of Parse: the move parse found is left pushed on the board
Parse_leaving_move_pushed(text) ==
    LET move == parse(Self, text)
    IN  /\ test_i = 0
        /\ pc = "ready"
        /\ notation_text' = text
        /\ result' = move
        /\ pc' = "parsed"
        /\ IF move # None /\ IsLegal(move)
           THEN PushBoard(move)
           ELSE UNCHANGED <<pieces, turn, castling_rights, ep_square, move_stack,
                            legal_moves>>
        /\ UNCHANGED <<is_white_turn, formatted, test_i>>
    /\ UNCHANGED gui_vars

\* move = parser.parse(text)
Parse(text) ==
    /\ test_i = 0
    /\ pc = "ready"
    /\ notation_text' = text
    /\ result' = parse(Self, text)
    /\ pc' = "parsed"
    /\ UNCHANGED <<pieces, turn, castling_rights, ep_square, move_stack, legal_moves,
                   is_white_turn, formatted, test_i>>
    /\ UNCHANGED gui_vars

\* the same call again: parser.parse(text) with the text of the last call
Retry ==
    /\ test_i = 0
    /\ pc = "parsed"
    /\ result' = parse(Self, notation_text)
    /\ UNCHANGED <<pieces, turn, castling_rights, ep_square, move_stack, legal_moves,
                   is_white_turn, notation_text, formatted, test_i, pc>>
    /\ UNCHANGED gui_vars

\* if move and move in board.legal_moves: board.push(move); the parser is kept
PushMove ==
    /\ test_i = 0
    /\ pc = "parsed"
    /\ result # None
    /\ IsLegal(result)
    /\ Len(move_stack) < MaxPly
    /\ PushBoard(result)
    /\ notation_text' = <<>>
    /\ result' = None
    /\ pc' = "ready"
    /\ UNCHANGED <<is_white_turn, formatted, test_i>>
    /\ UNCHANGED gui_vars

\* parser = DescriptiveNotationParser(board): the caller drops what the last call
\* returned and constructs a parser on the board as it is
Construct ==
    /\ test_i = 0
    /\ pc # "ready" \/ is_white_turn # turn
    /\ is_white_turn' = turn
    /\ notation_text' = <<>>
    /\ result' = None
    /\ formatted' = None
    /\ pc' = "ready"
    /\ UNCHANGED <<pieces, turn, castling_rights, ep_square, move_stack, legal_moves,
                   test_i>>
    /\ UNCHANGED gui_vars

\* notation = MoveToDescriptive.convert(board, move) for a legal move
Convert(m) ==
    /\ test_i = 0
    /\ pc = "ready"
    /\ IsLegal(m)
    /\ notation_text' = convert(pieces, m)
    /\ formatted' = m
    /\ pc' = "converted"
    /\ UNCHANGED <<pieces, turn, castling_rights, ep_square, move_stack, legal_moves,
                   is_white_turn, result, test_i>>
    /\ UNCHANGED gui_vars

\* parser.parse(notation) with the text convert produced
Reparse ==
    /\ test_i = 0
    /\ pc = "converted"
    /\ result' = parse(Self, notation_text)
    /\ pc' = "reparsed"
    /\ UNCHANGED <<pieces, turn, castling_rights, ep_square, move_stack, legal_moves,
                   is_white_turn, notation_text, formatted, test_i>>
    /\ UNCHANGED gui_vars

\* one round of the loop of test_basic_moves: parse the notation of the test case,
\* and if the move is legal push it and construct a parser on the new position
TestStep ==
    /\ test_i \in 1..Len(test_cases)
    /\ LET move == parse(Self, test_cases[test_i][1])
       IN  /\ notation_text' = test_cases[test_i][1]
           /\ result' = move
           /\ IF move # None /\ IsLegal(move)
              THEN /\ PushBoard(move)
                   /\ is_white_turn' = ~turn
              ELSE UNCHANGED <<pieces, turn, castling_rights, ep_square, move_stack,
                               legal_moves, is_white_turn>>
    /\ test_i' = test_i + 1
    /\ UNCHANGED <<formatted, pc>>
    /\ UNCHANGED gui_vars

Next ==
    \/ \E text \in GrammarInputs : Parse(text)
    \/ Retry
    \/ PushMove
    \/ Construct
    \/ \E i \in 1..Len(legal_moves) : Convert(legal_moves[i])
    \/ Reparse
    \/ TestStep

Spec == Init /\ [][Next]_vars

\* the caller that types its texts with annotations
NextText ==
    \/ \E text \in TextInputs : Parse(text)
    \/ PushMove
    \/ Construct

SpecText == Init /\ [][NextText]_vars

\* board = Board(fen); parser = DescriptiveNotationParser(board)
InitForms ==
    \E pos \in FormPositions :
        /\ pieces = pos[1]
        /\ turn = pos[2]
        /\ castling_rights = pos[3]
        /\ ep_square = pos[4]
        /\ move_stack = <<>>
        /\ legal_moves = LegalMoves(pos[1], pos[2], pos[3], pos[4])
        /\ is_white_turn = pos[2]
        /\ notation_text = <<>>
        /\ result = None
        /\ formatted = None
        /\ test_i = 0
        /\ pc = "ready"
        /\ NoGUI

\* the caller that types the texts of FormInputs
NextForms ==
    \/ \E text \in FormInputs : Parse(text)
    \/ PushMove
    \/ Construct

SpecForms == InitForms /\ [][NextForms]_vars

\* the caller that formats the legal moves and parses the text again
NextFormat ==
    \/ \E i \in 1..Len(legal_moves) : Convert(legal_moves[i])
    \/ Reparse
    \/ Construct

SpecFormat == InitForms /\ [][NextFormat]_vars

\* board = Board(fen); parser = DescriptiveNotationParser(board)
InitEdge ==
    \E pos \in EdgePositions :
        /\ pieces = pos[1]
        /\ turn = pos[2]
        /\ castling_rights = pos[3]
        /\ ep_square = pos[4]
        /\ move_stack = <<>>
        /\ legal_moves = LegalMoves(pos[1], pos[2], pos[3], pos[4])
        /\ is_white_turn = pos[2]
        /\ notation_text = <<>>
        /\ result = None
        /\ formatted = None
        /\ test_i = 0
        /\ pc = "ready"
        /\ NoGUI

\* the caller that types the texts of EdgeInputs and formats the legal moves
NextEdge ==
    \/ \E text \in EdgeInputs : Parse(text)
    \/ PushMove
    \/ Construct
    \/ \E i \in 1..Len(legal_moves) : Convert(legal_moves[i])

SpecEdge == InitEdge /\ [][NextEdge]_vars

-----------------------------------------------------------------------------
(* ChessBoardGUI: the history of positions, navigation and the animations. *)
(* A FEN is <<placement, side to move, castling rights, en passant         *)
(* square>>; its move counters, which no handler reads, are left out.      *)
(* Every handler runs to its end on Tk's event loop, so a handler is one   *)
(* step; the timer callbacks of an animation run between the handlers.     *)
(* The callbacks of the steps 1..animation_steps draw the moving piece on  *)
(* the canvas and schedule the next one: they change nothing of the state  *)
(* below and are stuttering steps.  The last callback of an animation is   *)
(* the action animate_step.  All animations take the same number of steps  *)
(* with the same delay, so they end in the order they were started.        *)

\* moves the history may hold
MaxMoves == 1

\* animations that may be running at once
MaxAnimations == 2

\* board.fen(): the castling rights are cleaned, and the en passant square is
\* written only when a legal move takes there in passing (lm: the legal moves)
fen(b, c, cr, ep, lm) ==
    <<b, c, clean_castling_rights(b, cr),
      IF \E i \in 1..Len(lm) : is_en_passant(b, ep, lm[i]) THEN ep ELSE -1>>

\* self.board.fen()
BoardFen == fen(pieces, turn, castling_rights, ep_square, legal_moves)

\* self.board = Board(f): a new board, with no move on its stack
SetBoard(f) ==
    /\ pieces' = f[1]
    /\ turn' = f[2]
    /\ castling_rights' = f[3]
    /\ ep_square' = f[4]
    /\ move_stack' = <<>>
    /\ legal_moves' = LegalMoves(f[1], f[2], f[3], f[4])

\* the board after board.clear(): no piece, White to move, no rights
EmptyFen == <<[s \in Squares |-> 0], WHITE, {}, -1>>

\* self._show_status(msg, error): the message without the text of the move
Status(msg, error) == [msg |-> msg, error |-> error]

\* lst[:n]
Slice(lst, n) == SubSeq(lst, 1, IF n < Len(lst) THEN n ELSE Len(lst))

\* the texts typed into the move entry field
GuiInputs == {<<"P", "-", "K", "4">>, <<"O", "-", "O">>}

\* ChessBoardGUI.__init__
InitGUI ==
    /\ pieces = InitialPosition[1]
    /\ turn = InitialPosition[2]
    /\ castling_rights = InitialPosition[3]
    /\ ep_square = InitialPosition[4]
    /\ move_stack = <<>>
    /\ legal_moves = LegalMoves(InitialPosition[1], InitialPosition[2],
                                InitialPosition[3], InitialPosition[4])
    /\ is_white_turn = InitialPosition[2]
    /\ notation_text = <<>>
    /\ result = None
    /\ formatted = None
    /\ test_i = 0
    /\ pc = "ready"
    /\ board_states = <<InitialPosition>>
    /\ move_history = <<>>
    /\ move_notations = <<>>
    /\ current_move_index = 0
    /\ animating = FALSE
    /\ animations = <<>>
    /\ status = Status("", FALSE)
    /\ displayed = InitialPosition[1]

\* _animate_piece_move_forward: the board is drawn without the moving piece (the
\* board itself is put back), and the callbacks are scheduled
_animate_piece_move_forward ==
    /\ Len(animations) < MaxAnimations
    /\ animating' = TRUE
    /\ animations' = Append(animations, [kind |-> "forward", final_board |-> <<>>])

\* what _make_move draws: the position before the move without the moving piece
\* when the move is animated, else the board
MakeMoveDraws(move) ==
    IF piece_at(pieces, move.from_square) # 0
    THEN [BoardFen[1] EXCEPT ![move.from_square] = 0]
    ELSE PiecesAfter(pieces, ep_square, move)

\* _make_move(move, notation, animate=True); notation_arg <<>> stands for None.
\* What _check_game_state writes to the status label is overwritten by _execute_move.
_make_move(move, notation_arg) ==
    LET truncate == current_move_index < Len(board_states) - 1
        states == IF truncate THEN Slice(board_states, current_move_index + 1)
                  ELSE board_states
        history == IF truncate THEN Slice(move_history, current_move_index)
                   ELSE move_history
        notations == IF truncate THEN Slice(move_notations, current_move_index)
                     ELSE move_notations
        notation == IF notation_arg = <<>> THEN convert(pieces, move) ELSE notation_arg
    IN  /\ Len(states) <= MaxMoves
        /\ move_history' = Append(history, BoardFen)
        /\ move_notations' = Append(notations, notation)
        /\ PushBoard(move)
        /\ board_states' = Append(states, fen(pieces', turn', castling_rights',
                                              ep_square', legal_moves'))
        /\ current_move_index' = Len(states)
        /\ IF piece_at(pieces, move.from_square) # 0
           THEN _animate_piece_move_forward
           ELSE UNCHANGED <<animating, animations>>

\* faulty variant of _execute_move: the move parse returned is made without asking
\* the oracle
_execute_move_unchecked(text) ==
    LET notation == strip(text)
        parser == Parser(pieces, turn, castling_rights, legal_moves, turn)
        move == parse(parser, notation)
    IN  /\ notation # <<>>
        /\ IF move # None
           THEN /\ _make_move(move, notation)
                /\ displayed' = MakeMoveDraws(move)
                /\ status' = Status("Played", FALSE)
           ELSE /\ status' = Status("Invalid move", TRUE)
                /\ UNCHANGED <<pieces, turn, castling_rights, ep_square, move_stack,
                               legal_moves, board_states, move_history,
                               move_notations, current_move_index, animating,
                               animations, displayed>>
        /\ UNCHANGED <<is_white_turn, notation_text, result, formatted, test_i, pc>>

\* _execute_move, with the text of the entry field
_execute_move(text) ==
    LET notation == strip(text)
        parser == Parser(pieces, turn, castling_rights, legal_moves, turn)
        move == parse(parser, notation)
    IN  /\ notation # <<>>
        /\ IF move # None /\ IsLegal(move)
           THEN /\ _make_move(move, notation)
                /\ displayed' = MakeMoveDraws(move)
                /\ status' = Status("Played", FALSE)
           ELSE /\ status' = Status("Invalid move", TRUE)
                /\ UNCHANGED <<pieces, turn, castling_rights, ep_square, move_stack,
                               legal_moves, board_states, move_history,
                               move_notations, current_move_index, animating,
                               animations, displayed>>
        /\ UNCHANGED <<is_white_turn, notation_text, result, formatted, test_i, pc>>

_reset_board ==
    /\ SetBoard(InitialPosition)
    /\ move_history' = <<>>
    /\ move_notations' = <<>>
    /\ board_states' = <<InitialPosition>>
    /\ current_move_index' = 0
    /\ displayed' = InitialPosition[1]
    /\ status' = Status("Board reset", FALSE)
    /\ UNCHANGED <<animating, animations, is_white_turn, notation_text, result,
                   formatted, test_i, pc>>

_clear_board ==
    /\ SetBoard(EmptyFen)
    /\ move_history' = <<>>
    /\ move_notations' = <<>>
    /\ board_states' = <<EmptyFen>>
    /\ current_move_index' = 0
    /\ displayed' = EmptyFen[1]
    /\ status' = Status("Board cleared", FALSE)
    /\ UNCHANGED <<animating, animations, is_white_turn, notation_text, result,
                   formatted, test_i, pc>>

\* faulty variant of _undo_move: the text of the move undone is kept
_undo_move_keeping_notation ==
    /\ IF Len(board_states) > 1
       THEN LET states == Slice(board_states, Len(board_states) - 1)
            IN  /\ board_states' = states
                /\ move_history' = Slice(move_history, Len(move_history) - 1)
                /\ move_notations' = move_notations
                /\ current_move_index' = Len(states) - 1
                /\ SetBoard(states[Len(states)])
                /\ displayed' = states[Len(states)][1]
                /\ status' = Status("Move undone", FALSE)
       ELSE /\ status' = Status("Nothing to undo", TRUE)
            /\ UNCHANGED <<pieces, turn, castling_rights, ep_square, move_stack,
                           legal_moves, board_states, move_history, move_notations,
                           current_move_index, displayed>>
    /\ UNCHANGED <<animating, animations, is_white_turn, notation_text, result,
                   formatted, test_i, pc>>

_undo_move ==
    /\ IF Len(board_states) > 1
       THEN LET states == Slice(board_states, Len(board_states) - 1)
            IN  /\ board_states' = states
                /\ move_history' = Slice(move_history, Len(move_history) - 1)
                /\ move_notations' = Slice(move_notations, Len(move_notations) - 1)
                /\ current_move_index' = Len(states) - 1
                /\ SetBoard(states[Len(states)])
                /\ displayed' = states[Len(states)][1]
                /\ status' = Status("Move undone", FALSE)
       ELSE /\ status' = Status("Nothing to undo", TRUE)
            /\ UNCHANGED <<pieces, turn, castling_rights, ep_square, move_stack,
                           legal_moves, board_states, move_history, move_notations,
                           current_move_index, displayed>>
    /\ UNCHANGED <<animating, animations, is_white_turn, notation_text, result,
                   formatted, test_i, pc>>

\* _animate_piece_move(from_sq, to_sq, piece, final_board): the board becomes a
\* copy of itself without the moving piece until the last callback
_animate_piece_move(from_sq, final_board) ==
    /\ Len(animations) < MaxAnimations
    /\ animating' = TRUE
    /\ SetBoard(<<[BoardFen[1] EXCEPT ![from_sq] = 0], BoardFen[2], BoardFen[3],
                  BoardFen[4]>>)
    /\ displayed' = [BoardFen[1] EXCEPT ![from_sq] = 0]
    /\ animations' = Append(animations,
                            [kind |-> "navigation", final_board |-> final_board])

\* _animate_navigation(from_index, to_index): the squares that differ between the
\* two positions give the piece to move
_animate_navigation(from_index, to_index) ==
    LET old_board == board_states[from_index + 1][1]
        new_board == board_states[to_index + 1][1]
        gone == {sq \in Squares : old_board[sq] # 0 /\ new_board[sq] = 0}
        come == {sq \in Squares : new_board[sq] # 0 /\ old_board[sq] = 0}
        changed == {sq \in Squares : /\ old_board[sq] # 0
                                     /\ new_board[sq] # 0
                                     /\ old_board[sq] # new_board[sq]}
        from_squares == gone \cup changed
        to_squares == come \cup changed
    IN  IF from_squares # {} /\ to_squares # {}
        THEN _animate_piece_move(
                 CHOOSE sq \in from_squares : \A other \in from_squares : sq <= other,
                 board_states[to_index + 1])
        ELSE /\ SetBoard(board_states[to_index + 1])
             /\ displayed' = new_board
             /\ UNCHANGED <<animating, animations>>

\* _navigate_to_move(index, animate=True)
_navigate_to_move(index) ==
    /\ ~animating
    /\ current_move_index' = index
    /\ IF index - current_move_index \in {1, -1}
       THEN _animate_navigation(current_move_index, index)
       ELSE /\ SetBoard(board_states[index + 1])
            /\ displayed' = board_states[index + 1][1]
            /\ UNCHANGED <<animating, animations>>
    /\ UNCHANGED <<board_states, move_history, move_notations, status,
                   is_white_turn, notation_text, result, formatted, test_i, pc>>

_go_to_start ==
    /\ current_move_index > 0
    /\ _navigate_to_move(0)

_go_back ==
    /\ current_move_index > 0
    /\ _navigate_to_move(current_move_index - 1)

_go_forward ==
    /\ current_move_index < Len(board_states) - 1
    /\ _navigate_to_move(current_move_index + 1)

_go_to_end ==
    /\ current_move_index < Len(board_states) - 1
    /\ _navigate_to_move(Len(board_states) - 1)

\* the last timer callback of the oldest running animation (step >
\* animation_steps): a navigation sets the board it was started for
animate_step ==
    /\ animations # <<>>
    /\ LET animation == Head(animations)
       IN  IF animation.kind = "navigation"
           THEN /\ SetBoard(animation.final_board)
                /\ displayed' = animation.final_board[1]
           ELSE /\ displayed' = pieces
                /\ UNCHANGED <<pieces, turn, castling_rights, ep_square, move_stack,
                               legal_moves>>
    /\ animating' = FALSE
    /\ animations' = Tail(animations)
    /\ UNCHANGED <<board_states, move_history, move_notations, current_move_index,
                   status, is_white_turn, notation_text, result, formatted, test_i, pc>>

NextGUI ==
    \/ \E text \in GuiInputs : _execute_move(text)
    \/ _reset_board
    \/ _clear_board
    \/ _undo_move
    \/ _go_to_start
    \/ _go_back
    \/ _go_forward
    \/ _go_to_end
    \/ animate_step

SpecGUI == InitGUI /\ [][NextGUI]_vars

\* the window with navigation, move entry and undo only, and the timer callbacks
NextAnimation ==
    \/ \E text \in GuiInputs : _execute_move(text)
    \/ _undo_move
    \/ _go_to_start
    \/ _go_back
    \/ _go_forward
    \/ _go_to_end
    \/ animate_step

SpecAnimation == InitGUI /\ [][NextAnimation]_vars

-----------------------------------------------------------------------------
(* Properties.                                                             *)

\* the text is a castling token as typed (parse compares the normalized text with
\* these; the texts of GrammarInputs and of convert are not changed by
\* normalization but for the case of 'x')
IsCastlingText(text) == text \in CastlingInputs

KingsideTokens == {<<"O", "-", "O">>, <<"0", "-", "0">>}
QueensideTokens == {<<"O", "-", "O", "-", "O">>, <<"0", "-", "0", "-", "0">>}

\* C1: in test_basic_moves every notation parsed so far gave the move the test
\* expects: 'P-K4', 'P-K4', 'N-KB3', 'P-Q4' from the initial position, each move
\* pushed and a parser constructed before the next, give e2e4, e7e5, g1f3, d2d4.
C1_TestBasicMoves ==
    test_i > 1 =>
        /\ result # None
        /\ uci(result) = test_cases[test_i - 1][2]

\* C2: for every rank digit r in 1..8 the rank resolver gives r - 1 to a parser
\* that holds White as the mover and 8 - r to one that holds Black, the two
\* summing to 7; and the move parse returns for 'P-K4' ends on absolute rank
\* index 3 for White and 4 for Black.
C2_RankMirror ==
    /\ \A r \in 1..8 :
          /\ _descriptive_rank_to_standard(Self, r) = (IF is_white_turn THEN r - 1 ELSE 8 - r)
          /\ _descriptive_rank_to_standard([Self EXCEPT !.is_white_turn = WHITE], r)
             + _descriptive_rank_to_standard([Self EXCEPT !.is_white_turn = BLACK], r) = 7
    /\ (pc = "parsed" /\ notation_text = <<"P", "-", "K", "4">> /\ result # None)
          => square_rank(result.to_square) = (IF is_white_turn THEN 3 ELSE 4)

\* a parser constructed with Black to move parsed 'P-K4' to e7e5
C2_Witness ==
    /\ pc = "parsed"
    /\ ~is_white_turn
    /\ notation_text = <<"P", "-", "K", "4">>
    /\ result = Move(52, 36, 0)

\* C3: a castling token gives the fixed king move of the side the parser holds
\* as the mover (e1g1 / e1c1 for White, e8g8 / e8c8 for Black) exactly when the
\* oracle reports that side's castling right for that wing, and fails otherwise;
\* nothing else (pieces in between, check, the move being legal) has a say.
C3_CastlingByRights ==
    pc = "parsed" =>
        /\ notation_text \in KingsideTokens =>
              result = (IF has_kingside_castling_rights(pieces, castling_rights, is_white_turn)
                        THEN (IF is_white_turn THEN Move(4, 6, 0) ELSE Move(60, 62, 0))
                        ELSE None)
        /\ notation_text \in QueensideTokens =>
              result = (IF has_queenside_castling_rights(pieces, castling_rights, is_white_turn)
                        THEN (IF is_white_turn THEN Move(4, 2, 0) ELSE Move(60, 58, 0))
                        ELSE None)

\* 'O-O' was answered with e1g1 in a position where the right is there but the
\* squares between king and rook are occupied
C3_Witness ==
    /\ pc = "parsed"
    /\ notation_text = <<"O", "-", "O">>
    /\ result = Move(4, 6, 0)
    /\ pieces[5] # 0
    /\ ~IsLegal(result)

\* C4: a move parse returns for a text that is no castling token is one of the
\* oracle's legal moves.
C4_ReturnsLegalMove ==
    (pc \in {"parsed", "reparsed"} /\ result # None /\ ~IsCastlingText(notation_text))
        => IsLegal(result)

\* a parser kept over a push (it holds the side that moved) returned a move
C4_Witness ==
    /\ pc = "parsed"
    /\ ~IsCastlingText(notation_text)
    /\ result # None
    /\ is_white_turn # turn
    /\ IsLegal(result)

\* C5 as stated: a castling move parse returns is one of the oracle's legal moves.
C5_CastlingIsLegal ==
    (pc = "parsed" /\ IsCastlingText(notation_text) /\ result # None)
        => IsLegal(result)

\* C5, amended: a castling move parse returns is e1g1, e1c1, e8g8 or e8c8 and the
\* oracle reports the castling right of that king for that wing; the move need
\* not be one of the oracle's legal moves.
C5_CastlingHasRight ==
    (pc = "parsed" /\ IsCastlingText(notation_text) /\ result # None)
        => /\ result \in {Move(4, 6, 0), Move(4, 2, 0), Move(60, 62, 0), Move(60, 58, 0)}
           /\ (IF result.to_square > result.from_square THEN 7 ELSE 0)
              + (IF result.from_square = 4 THEN 0 ELSE 56)
                 \in clean_castling_rights(pieces, castling_rights)

\* a castling move was returned that the oracle does not list as legal
C5_Witness ==
    /\ pc = "parsed"
    /\ IsCastlingText(notation_text)
    /\ result # None
    /\ ~IsLegal(result)

\* C6: a text followed by a check, mate or en passant annotation (in either
\* case, with whitespace around it) parses to what the text alone parses to.
C6_AnnotationDiscarded ==
    pc = "parsed" =>
        \A s \in AnnotatedBase, a \in Annotations, pre \in Leading :
            notation_text = Annotated(pre, s, a) => result = parse(Self, s)

\* 'PxP e.p.' was parsed to a move
C6_Witness ==
    /\ pc = "parsed"
    /\ notation_text = <<"P", "x", "P", " ", "e", ".", "p", ".">>
    /\ result # None

\* the file index of a file token, and the kind of a promotion letter
FileTokenIndex(f) ==
    CHOOSE i \in 0..7 :
        << <<"Q", "R">>, <<"Q", "N">>, <<"Q", "B">>, <<"Q">>,
           <<"K">>, <<"K", "B">>, <<"K", "N">>, <<"K", "R">> >>[i + 1] = f
PromotionKind(l) ==
    CASE l = "Q" -> QUEEN [] l = "R" -> ROOK [] l = "B" -> BISHOP [] l = "N" -> KNIGHT

\* C7: 'P-<file><rank>(<L>)' gives a legal move to the square of that file on
\* that rank (counted from the side the parser holds as the mover) that promotes
\* to exactly L, and fails exactly when no legal move has that destination and
\* that promotion kind.
C7_PromotionKind ==
    (pc = "parsed" /\ notation_text \in PromotionInputs) =>
        \A f \in FileTokens, r \in {1, 8}, l \in PromotionLetters :
            notation_text = PromotionText(f, r, l) =>
                LET sq == square(FileTokenIndex(f), IF is_white_turn THEN r - 1 ELSE 8 - r)
                    fits(m) == m.to_square = sq /\ m.promotion = PromotionKind(l)
                IN  /\ result # None => IsLegal(result) /\ fits(result)
                    /\ result = None <=>
                          ~\E i \in 1..Len(legal_moves) : fits(legal_moves[i])

\* 'P-KR8(N)' was parsed to the capture g7xh8 promoting to a knight
C7_Witness ==
    /\ pc = "parsed"
    /\ notation_text = PromotionText(<<"K", "R">>, 8, "N")
    /\ result = Move(54, 63, KNIGHT)

C9_SideAtCallTime ==
    pc = "parsed" =>
        result = parse(Parser(pieces, turn, castling_rights, legal_moves, turn),
                       notation_text)

\* no other legal move of a piece of the same kind, from another square, has
\* the destination of m
Unambiguous(m) ==
    \A i \in 1..Len(legal_moves) :
        LET o == legal_moves[i]
        IN  (/\ o.to_square = m.to_square
             /\ piece_type(pieces[o.from_square]) = piece_type(pieces[m.from_square]))
            => o.from_square = m.from_square

\* C10 as stated: for a legal move m that is no castling move and has a single
\* origin, a parser constructed on the board parses convert(board, m) to m.
C10_RoundTrip ==
    (/\ pc = "reparsed"
     /\ is_white_turn = turn
     /\ ~is_castling(pieces, formatted)
     /\ Unambiguous(formatted))
        => result = formatted

-----------------------------------------------------------------------------
(* Forms of text: malformed texts, abbreviated files, prefixes, captures   *)
(* and the choice among several candidates.                                *)

\* the legal moves, in the oracle's order, by a piece of a kind of the side to
\* move to a square of one of the files on the rank the parser resolves
FormCandidates(type, files, rank_desc) ==
    LET rank == IF is_white_turn THEN rank_desc - 1 ELSE 8 - rank_desc
        fits(m) == /\ m.to_square \in {square(f, rank) : f \in files}
                   /\ pieces[m.from_square] # 0
                   /\ piece_type(pieces[m.from_square]) = type
                   /\ piece_color(pieces[m.from_square]) = turn
    IN  SelectSeq(legal_moves, fits)

\* C11: a text with an unmatched parenthesis is parsed to a failure, never to
\* a move.
C11_UnmatchedFails ==
    (pc = "parsed" /\ notation_text \in UnmatchedInputs) => result = None

\* what the texts of AbbreviatedInputs ask for: the kind of piece, the two files
\* of the abbreviated letter and the rank digit
AbbreviatedForms ==
    {[text |-> <<"N", "-", "B", "3">>, type |-> KNIGHT, files |-> {2, 5}, rank |-> 3],
     [text |-> <<"B", "-", "N", "5">>, type |-> BISHOP, files |-> {1, 6}, rank |-> 5],
     [text |-> <<"P", "-", "B", "4">>, type |-> PAWN, files |-> {2, 5}, rank |-> 4],
     [text |-> <<"P", "-", "R", "4">>, type |-> PAWN, files |-> {0, 7}, rank |-> 4],
     [text |-> <<"N", "x", "B", "3">>, type |-> KNIGHT, files |-> {2, 5}, rank |-> 3],
     [text |-> <<"R", "-", "N", "1">>, type |-> ROOK, files |-> {1, 6}, rank |-> 1],
     [text |-> <<"P", "x", "N", "8">>, type |-> PAWN, files |-> {1, 6}, rank |-> 8]}

\* C12: a plain-piece or pawn text whose destination is an abbreviated file
\* letter and a rank: when exactly one legal move by a piece of that kind of the
\* side to move reaches one of the two squares, parse returns that move.
C12_AbbreviatedSingle ==
    (pc = "parsed" /\ notation_text \in AbbreviatedInputs) =>
        \A form \in AbbreviatedForms :
            notation_text = form.text =>
                LET c == FormCandidates(form.type, form.files, form.rank)
                IN  Len(c) = 1 => result = c[1]

\* 'R-N1' was parsed to h1g1, the one rook move to QN1 or KN1 (on the second file)
C12_Witness ==
    /\ pc = "parsed"
    /\ notation_text = <<"R", "-", "N", "1">>
    /\ Len(FormCandidates(ROOK, {1, 6}, 1)) = 1
    /\ result = Move(7, 6, 0)

\* C13: a text that starts with QR, KR, QN, KN, QB or KB goes to the
\* qualified-piece parser when its third character is '-' or 'x'; otherwise it
\* goes to the pawn parser, with the prefix as the file of the destination, and
\* the result is a pawn move or a failure.
C13_PrefixDispatch ==
    (pc = "parsed" /\ notation_text \in PrefixInputs) =>
        IF notation_text[3] \in {"-", "x"}
        THEN result = _parse_qualified_piece_move(Self, Normalize(notation_text))
        ELSE /\ result = _parse_pawn_move(Self, Normalize(notation_text))
             /\ result # None => piece_type(pieces[result.from_square]) = PAWN

\* what the plain-piece and pawn texts of CaptureInputs ask for: the kind of the
\* capturing piece and the kind of the captured piece (0: any)
CaptureForms ==
    {[text |-> <<"N", "x", "P">>, type |-> KNIGHT, captured |-> PAWN],
     [text |-> <<"B", "x", "P">>, type |-> BISHOP, captured |-> PAWN],
     [text |-> <<"R", "x", "R">>, type |-> ROOK, captured |-> ROOK],
     [text |-> <<"K", "x", "P">>, type |-> KING, captured |-> PAWN],
     [text |-> <<"Q", "x", "P">>, type |-> QUEEN, captured |-> PAWN],
     [text |-> <<"R", "x">>, type |-> ROOK, captured |-> 0],
     [text |-> <<"P", "x", "P">>, type |-> PAWN, captured |-> PAWN],
     [text |-> <<"P", "x", "R">>, type |-> PAWN, captured |-> ROOK],
     [text |-> <<"P", "x", "N">>, type |-> PAWN, captured |-> KNIGHT],
     [text |-> <<"P", "x">>, type |-> PAWN, captured |-> 0]}

\* the move is by a piece of the kind of the side to move and takes an enemy
\* piece, of the kind captured if one is given
IsCaptureOf(m, type, captured) ==
    /\ pieces[m.from_square] # 0
    /\ piece_type(pieces[m.from_square]) = type
    /\ piece_color(pieces[m.from_square]) = turn
    /\ pieces[m.to_square] # 0
    /\ piece_color(pieces[m.to_square]) # turn
    /\ captured # 0 => piece_type(pieces[m.to_square]) = captured

\* C14: a plain-piece or pawn capture without a destination returns a legal move
\* by a piece of the kind asked for, of the side to move, onto a square that
\* holds an enemy piece, of the kind of the captured-piece letter when one is
\* given; it fails exactly when no legal move is such a capture.
C14_GenericCapture ==
    (pc = "parsed" /\ notation_text \in CaptureInputs) =>
        \A form \in CaptureForms :
            notation_text = form.text =>
                /\ result # None =>
                      IsLegal(result) /\ IsCaptureOf(result, form.type, form.captured)
                /\ result = None <=>
                      ~\E i \in 1..Len(legal_moves) :
                          IsCaptureOf(legal_moves[i], form.type, form.captured)

\* 'PxR' was parsed to a pawn move that takes a rook
C14_Witness ==
    /\ pc = "parsed"
    /\ notation_text = <<"P", "x", "R">>
    /\ result # None
    /\ piece_type(pieces[result.to_square]) = ROOK

\* what the qualified texts of CaptureInputs with a captured-piece letter ask for
QualifiedCaptureForms ==
    {[text |-> <<"Q", "R", "x", "P">>, type |-> ROOK, captured |-> PAWN],
     [text |-> <<"K", "R", "x", "P">>, type |-> ROOK, captured |-> PAWN],
     [text |-> <<"Q", "R", "x", "R">>, type |-> ROOK, captured |-> ROOK],
     [text |-> <<"K", "N", "x", "P">>, type |-> KNIGHT, captured |-> PAWN],
     [text |-> <<"K", "B", "x", "N">>, type |-> BISHOP, captured |-> KNIGHT]}

\* C15: a qualified capture without a destination, with a captured-piece letter
\* L: a move returned takes a piece of kind L, and a move is returned whenever
\* some legal capture by a piece of the kind asked for takes a piece of kind L.
C15_QualifiedGenericCapture ==
    (pc = "parsed" /\ notation_text \in CaptureInputs) =>
        \A form \in QualifiedCaptureForms :
            notation_text = form.text =>
                /\ result # None =>
                      /\ pieces[result.to_square] # 0
                      /\ piece_type(pieces[result.to_square]) = form.captured
                /\ (\E i \in 1..Len(legal_moves) :
                        IsCaptureOf(legal_moves[i], form.type, form.captured))
                      => result # None

\* what the texts of QualifiedDestinationInputs ask for: the kind of piece, the
\* side of the qualifier, the files and the rank of the destination, and whether
\* the text has a capture marker
QualifiedDestinationForms ==
    {[text |-> <<"K", "N", "-", "K", "B", "3">>, type |-> KNIGHT, side |-> "K",
      files |-> {5}, rank |-> 3, capture |-> FALSE],
     [text |-> <<"Q", "N", "-", "B", "3">>, type |-> KNIGHT, side |-> "Q",
      files |-> {2, 5}, rank |-> 3, capture |-> FALSE],
     [text |-> <<"K", "N", "-", "B", "3">>, type |-> KNIGHT, side |-> "K",
      files |-> {2, 5}, rank |-> 3, capture |-> FALSE],
     [text |-> <<"Q", "N", "x", "B", "3">>, type |-> KNIGHT, side |-> "Q",
      files |-> {2, 5}, rank |-> 3, capture |-> TRUE],
     [text |-> <<"K", "N", "x", "B", "3">>, type |-> KNIGHT, side |-> "K",
      files |-> {2, 5}, rank |-> 3, capture |-> TRUE],
     [text |-> <<"Q", "R", "-", "Q", "1">>, type |-> ROOK, side |-> "Q",
      files |-> {3}, rank |-> 1, capture |-> FALSE],
     [text |-> <<"K", "R", "-", "Q", "1">>, type |-> ROOK, side |-> "K",
      files |-> {3}, rank |-> 1, capture |-> FALSE],
     [text |-> <<"K", "R", "-", "K", "B", "1">>, type |-> ROOK, side |-> "K",
      files |-> {5}, rank |-> 1, capture |-> FALSE]}

\* the qualified captures without destination that the parser takes as such
QualifiedAnyCaptureForms ==
    {[text |-> <<"Q", "R", "x", "P">>, type |-> ROOK, side |-> "Q"],
     [text |-> <<"K", "R", "x", "P">>, type |-> ROOK, side |-> "K"],
     [text |-> <<"K", "N", "x", "P">>, type |-> KNIGHT, side |-> "K"],
     [text |-> <<"Q", "R", "x">>, type |-> ROOK, side |-> "Q"]}

\* the candidates whose origin file is on the side of the qualifier
OnSide(candidates, side) ==
    LET on(m) == IF side = "Q" THEN square_file(m.from_square) <= 3
                 ELSE square_file(m.from_square) >= 4
    IN  SelectSeq(candidates, on)

\* the legal captures, in the oracle's order, by a piece of a kind
CaptureCandidates(type) ==
    SelectSeq(legal_moves, LAMBDA m : IsCaptureOf(m, type, 0))

\* C16: in a qualified-piece parse with more than one candidate, of which exactly
\* one has its origin file on the qualifier's side (Q: files 0..3, K: files
\* 4..7), parse returns that candidate wherever it stands in the oracle's order.
C16_QualifierSide ==
    pc = "parsed" =>
        /\ notation_text \in QualifiedDestinationInputs =>
              \A form \in QualifiedDestinationForms :
                  notation_text = form.text =>
                      LET c == FormCandidates(form.type, form.files, form.rank)
                          on == OnSide(c, form.side)
                      IN  (Len(c) > 1 /\ Len(on) = 1) => result = on[1]
        /\ notation_text \in CaptureInputs =>
              \A form \in QualifiedAnyCaptureForms :
                  notation_text = form.text =>
                      LET c == CaptureCandidates(form.type)
                          on == OnSide(c, form.side)
                      IN  (Len(c) > 1 /\ Len(on) = 1) => result = on[1]

\* 'QN-B3' was parsed to b1c3 although g1f3 comes first among the candidates
C16_Witness ==
    /\ pc = "parsed"
    /\ notation_text = <<"Q", "N", "-", "B", "3">>
    /\ Len(FormCandidates(KNIGHT, {2, 5}, 3)) = 2
    /\ FormCandidates(KNIGHT, {2, 5}, 3)[1] = Move(6, 21, 0)
    /\ result = Move(1, 18, 0)

\* the texts with a destination, of the plain-piece, the pawn and the
\* qualified-piece parser (side "": no qualifier)
DestinationForms ==
    {[text |-> form.text, type |-> form.type, side |-> "", files |-> form.files,
      rank |-> form.rank, capture |-> \E i \in 1..Len(form.text) : form.text[i] = "x"] :
        form \in AbbreviatedForms}
    \cup QualifiedDestinationForms

\* rule 1 selects a candidate: there is a qualifier and exactly one candidate
\* is on its side
Rule1Selects(form, c) == form.side # "" /\ Len(OnSide(c, form.side)) = 1

\* the candidates that take a piece
Capturing(c) == SelectSeq(c, LAMBDA m : pieces[m.to_square] # 0)

\* C17: with more than one candidate, rule 1 selecting none and a capture marker
\* in the text, parse returns a candidate whose destination holds a piece
\* whenever there is one.
C17_CapturePreferred ==
    (pc = "parsed" /\ notation_text \in AbbreviatedInputs \cup QualifiedDestinationInputs) =>
        \A form \in DestinationForms :
            notation_text = form.text =>
                LET c == FormCandidates(form.type, form.files, form.rank)
                IN  (/\ Len(c) > 1
                     /\ ~Rule1Selects(form, c)
                     /\ form.capture
                     /\ Capturing(c) # <<>>)
                        => /\ result # None
                           /\ pieces[result.to_square] # 0

\* C18: when at least one candidate survives parse returns a move, and with
\* several candidates of which neither rule 1 nor rule 2 selects one, it
\* returns the candidate that is first in the oracle's order, also when the
\* destination is an abbreviated file letter with two squares.
C18_FirstInOracleOrder ==
    (pc = "parsed" /\ notation_text \in AbbreviatedInputs \cup QualifiedDestinationInputs) =>
        \A form \in DestinationForms :
            notation_text = form.text =>
                LET c == FormCandidates(form.type, form.files, form.rank)
                IN  /\ Len(c) >= 1 => result # None
                    /\ (/\ Len(c) > 1
                         /\ ~Rule1Selects(form, c)
                         /\ ~(form.capture /\ Capturing(c) # <<>>))
                            => result = c[1]

\* C19: a text with characters between the file token and the rank digit, or
\* after the rank digit, or without rank digit, is parsed to a failure.
C19_ExactDestination ==
    (pc = "parsed" /\ notation_text \in MalformedInputs) => result = None

\* what follows the '-' or 'x' of a text of the formatter
AfterMarker(text) ==
    LET k == CHOOSE i \in 1..Len(text) :
                 /\ text[i] \in {"-", "x"}
                 /\ \A j \in 1..(i - 1) : text[j] \notin {"-", "x"}
    IN  From(text, k)

\* C20: the eight file tokens map one to one to the files a..h, the same for
\* both colours, and for every square and colour of the mover the parser's file
\* and rank resolvers, given the file token and the rank number the formatter
\* writes for the square, give the square back.
C20_TablesInverse ==
    /\ \A f \in 0..7 :
          /\ FILE_NAMES(f) \in FileTokens
          /\ FileIndex(_descriptive_file_to_standard(FILE_NAMES(f))) = f
    /\ Cardinality({_descriptive_file_to_standard(t) : t \in FileTokens}) = 8
    /\ pc = "converted" =>
          \A sq \in Squares :
              LET m == Move(formatted.from_square, sq, 0)
                  colour == piece_color(pieces[formatted.from_square])
              IN  (sq # formatted.from_square /\ ~is_castling(pieces, m)) =>
                      LET dest == Destination(AfterMarker(convert(pieces, m)))
                      IN  /\ dest.file_desc # <<>>
                          /\ _file_rank_to_square(
                                 _descriptive_file_to_standard(dest.file_desc),
                                 _descriptive_rank_to_standard(
                                     [Self EXCEPT !.is_white_turn = colour],
                                     dest.rank_desc)) = sq

\* Black's g2-g1=Q was formatted as 'P-KN8(Q)'
C20_Witness ==
    /\ pc = "converted"
    /\ turn = BLACK
    /\ formatted = Move(14, 6, QUEEN)
    /\ notation_text = <<"P", "-", "K", "N", "8", "(", "Q", ")">>

-----------------------------------------------------------------------------
(* The formatter's capture marker, ranks off the board, empty texts, en     *)
(* passant and the side qualifier.                                         *)

\* whether the legal move m takes a piece: one on its destination, or a pawn in passing
IsCapture(m) == pieces[m.to_square] # 0 \/ is_en_passant(pieces, ep_square, m)

\* C21: for every legal move that is no castling, the text convert writes has an
\* 'x' exactly when the move captures, the en passant capture (whose destination
\* is empty) included, and has a '-' when it does not capture
C21_CaptureMarker ==
    (pc = "converted" /\ ~is_castling(pieces, formatted))
        => /\ contains(notation_text, "x") <=> IsCapture(formatted)
           /\ ~IsCapture(formatted) => contains(notation_text, "-")

\* C22: for a pawn capture convert writes the origin file's token, 'x', the
\* destination file's token and the rank, with no piece letter 'P' in the text
C22_PawnCaptureFormat ==
    (/\ pc = "converted"
     /\ piece_type(pieces[formatted.from_square]) = PAWN
     /\ IsCapture(formatted))
        => LET to_rank == square_rank(formatted.to_square)
               rank_num == IF turn THEN to_rank + 1 ELSE 8 - to_rank
           IN  /\ startswith(notation_text,
                             FILE_NAMES(square_file(formatted.from_square)) \o <<"x">>
                             \o FILE_NAMES(square_file(formatted.to_square))
                             \o Str(rank_num))
               /\ ~contains(notation_text, "P")

\* C23: a text whose rank digits are a number outside 1..8 (0, 9, several digits),
\* typed as a promotion, a plain-piece, a qualified-piece or a pawn text, for
\* either side: parse returns failure
C23_RankOffBoard ==
    (pc = "parsed" /\ notation_text \in OutOfRangeInputs) => result = None

C23_Witness ==
    /\ pc = "parsed"
    /\ ~turn
    /\ notation_text = <<"P", "-", "K", "N", "1", "6", "(", "Q", ")">>
    /\ \E i \in 1..Len(legal_moves) : legal_moves[i].promotion # 0
    /\ result = None

\* the legal pawn captures onto an occupied square, in the oracle's order
PawnCaptures ==
    SelectSeq(legal_moves,
              LAMBDA m : /\ piece_type(pieces[m.from_square]) = PAWN
                         /\ pieces[m.to_square] # 0)

\* C24: a text that is empty after normalization ('', whitespace, '+', 'ch', '#')
\* is read as a bare generic pawn capture: parse returns the first legal pawn
\* capture onto an occupied square in the oracle's order, and failure only when
\* there is none
C24_EmptyText ==
    (pc = "parsed" /\ notation_text \in EmptyInputs)
        => result = (IF PawnCaptures = <<>> THEN None ELSE PawnCaptures[1])

C24_Witness ==
    /\ pc = "parsed"
    /\ notation_text = <<"c", "h">>
    /\ Len(PawnCaptures) > 1
    /\ result = PawnCaptures[1]

\* the legal pawn captures, those in passing included
AllPawnCaptures ==
    SelectSeq(legal_moves,
              LAMBDA m : piece_type(pieces[m.from_square]) = PAWN /\ IsCapture(m))

\* the generic pawn capture typed with the en passant annotation
EnPassantTexts == {<<"P", "x", "P", " ", "e", ".", "p", ".">>, <<"P", "x", "P", "e", "p">>}

\* C25: a generic capture (plain, qualified or pawn, 'PxP' and 'PxP e.p.' among
\* them) never resolves to an en passant capture, and where en passant is the only
\* legal pawn capture 'PxP e.p.' returns failure
C25_NoEnPassant ==
    (pc = "parsed" /\ notation_text \in GenericCaptureInputs)
        => /\ result # None => ~is_en_passant(pieces, ep_square, result)
           /\ (/\ notation_text \in EnPassantTexts
               /\ AllPawnCaptures # <<>>
               /\ \A i \in 1..Len(AllPawnCaptures) :
                     is_en_passant(pieces, ep_square, AllPawnCaptures[i]))
                 => result = None

C25_Witness ==
    /\ pc = "parsed"
    /\ notation_text = <<"P", "x", "P", " ", "e", ".", "p", ".">>
    /\ Len(AllPawnCaptures) = 1
    /\ is_en_passant(pieces, ep_square, AllPawnCaptures[1])
    /\ result = None

\* what a qualified-piece parse may return of the candidates c for the qualifier
\* side: the only candidate when there is one, some candidate when there are
\* any, and no candidate of the other side when one is on the qualifier's side
TieBreakOnly(c, side) ==
    /\ Len(c) = 1 => result = c[1]
    /\ Len(c) >= 1 => \E i \in 1..Len(c) : result = c[i]
    /\ OnSide(c, side) # <<>> =>
          \E i \in 1..Len(OnSide(c, side)) : result = OnSide(c, side)[i]

\* C26: the side qualifier only breaks ties and never causes failure: a single
\* candidate is returned even when its origin is on the other side, and no move
\* with its origin on the other side is returned when a candidate is on the
\* qualifier's side
C26_QualifierBreaksTies ==
    pc = "parsed" =>
        /\ notation_text \in QualifiedDestinationInputs =>
              \A form \in QualifiedDestinationForms :
                  notation_text = form.text =>
                      TieBreakOnly(FormCandidates(form.type, form.files, form.rank),
                                   form.side)
        /\ notation_text \in CaptureInputs =>
              \A form \in QualifiedAnyCaptureForms :
                  notation_text = form.text =>
                      TieBreakOnly(CaptureCandidates(form.type), form.side)

\* 'KR-Q1' was parsed to the move of the queen's rook, the only rook that can go
\* to Q1
C26_Witness ==
    /\ pc = "parsed"
    /\ notation_text = <<"K", "R", "-", "Q", "1">>
    /\ Len(FormCandidates(ROOK, {3}, 1)) = 1
    /\ OnSide(FormCandidates(ROOK, {3}, 1), "K") = <<>>
    /\ result = FormCandidates(ROOK, {3}, 1)[1]

-----------------------------------------------------------------------------
(* The window: the history, move entry and the animations.                 *)

\* C27: after any sequence of moves made, moves undone, resets, clears and
\* navigation, board_states has one entry more than move_history and than
\* move_notations, and current_move_index is an index of board_states
C27_HistoryLengths ==
    /\ Len(board_states) = Len(move_history) + 1
    /\ Len(board_states) = Len(move_notations) + 1
    /\ 0 <= current_move_index
    /\ current_move_index <= Len(board_states) - 1

\* a move was made and the window was navigated back to the first position
C27_Witness ==
    /\ Len(board_states) = 2
    /\ Len(move_notations) = 1
    /\ current_move_index = 0
    /\ animations = <<>>

\* the move parse returns for a text typed into the entry field now
Entered(text) == parse(Parser(pieces, turn, castling_rights, legal_moves, turn), strip(text))

\* C28: _execute_move makes the move parse returned only if the oracle lists it
\* as legal; when parse fails or returns a move that is not legal (castling on
\* the rights alone), the board, board_states, move_history, move_notations and
\* current_move_index are unchanged and the status shows an error
C28_OnlyLegalMovesMade ==
    [][\A text \in GuiInputs :
          (_execute_move(text) /\ (Entered(text) = None \/ ~IsLegal(Entered(text))))
              => /\ UNCHANGED <<pieces, turn, castling_rights, ep_square, move_stack,
                                board_states, move_history, move_notations,
                                current_move_index>>
                 /\ status'.error]_vars

\* 'O-O' was typed in the initial position: parse returns the castling move, which
\* is not legal, and the status shows the error
C28_Witness ==
    /\ status = Status("Invalid move", TRUE)
    /\ board_states = <<InitialPosition>>
    /\ BoardFen = InitialPosition
    /\ Entered(<<"O", "-", "O">>) = Move(4, 6, 0)
    /\ ~IsLegal(Move(4, 6, 0))

\* the FEN of the position reached by the move m from the position of the FEN f
PositionAfter(f, m) ==
    LET after == Push(f[1], f[2], f[3], f[4], <<>>, m)
    IN  fen(after[1], after[2], after[3], after[4],
            LegalMoves(after[1], after[2], after[3], after[4]))

\* C29: a move made while current_move_index is not the last index discards
\* what comes after current_move_index and then appends: afterwards
\* current_move_index is the last index, and the last entry of board_states is
\* the position reached by the move from board_states[current_move_index] as
\* it was before
C29_TruncateThenAppend ==
    [][\A text \in GuiInputs :
          (/\ _execute_move(text)
           /\ Entered(text) # None
           /\ IsLegal(Entered(text))
           /\ current_move_index < Len(board_states) - 1)
              => /\ board_states' =
                        Append(Slice(board_states, current_move_index + 1),
                               PositionAfter(board_states[current_move_index + 1],
                                             Entered(text)))
                 /\ move_history' =
                        Append(Slice(move_history, current_move_index),
                               board_states[current_move_index + 1])
                 /\ Len(move_notations') = current_move_index + 1
                 /\ current_move_index' = Len(board_states') - 1]_vars

\* C30: under every interleaving of navigation, move entry and undo with the
\* timer callbacks of the animations, a text is parsed and its move made only
\* on a board equal to board_states[current_move_index], and when no callback
\* is scheduled any more the board drawn is board_states[current_move_index]
C30_AnimationsKeepPosition ==
    [][/\ \A text \in GuiInputs :
             _execute_move(text) => BoardFen = board_states[current_move_index + 1]
       /\ animations' = <<>> =>
             /\ displayed' = board_states'[current_move_index' + 1][1]
             /\ fen(pieces', turn', castling_rights', ep_square', legal_moves')
                    = board_states'[current_move_index' + 1]]_vars

=============================================================================
